---- MODULE Spec2Model ----
(***************************************************************************)
(* Model of the weather prediction pipeline of nasa-space-apps-25:         *)
(*   backend_package/prediction/predict_simple.py  (synthetic features)    *)
(*   backend_package/prediction/predict.py         (MODIS-backed variant)  *)
(*   backend/prediction/weather_predictor.py       (WeatherPredictor)      *)
(*                                                                         *)
(* Real numbers are fixed-point integers in units of 1/1000 ("milli"):     *)
(* 50.0 % is 50000, 1.3 is the ratio 13/10.  Python's round(x, n) is       *)
(* RoundTo(x, step) with step 100 (one decimal), 10 (two), 1 (three).      *)
(* A date string "YYYY-MM-DD" is the triple <<Y, M, D>>; it parses only    *)
(* when it names a calendar date.                                          *)
(***************************************************************************)
EXTENDS Integers, Sequences, FiniteSets, TLC

(***************************************************************************)
(* The process: one imported prediction module, its caches, the files it   *)
(* reads, the call in progress and the outcome of the last finished call.  *)
(***************************************************************************)
VARIABLES
    impl,        \* the module in use: "simple" (predict_simple.py), "full" (predict.py)
                 \* or "wp" (weather_predictor.py, where MODELS and MODIS_DF are the
                 \* fields of the one WeatherPredictor object)
    disk,        \* the artifact files under MODELS_DIR
    MODELS,      \* the module global _MODELS
    MODIS_DF,    \* predict.py's global _MODIS_DF
    WEIGHTS,     \* predict.py's global _WEIGHTS
    pc,          \* "idle", or "range" inside predict_daily_range's loop
    call,        \* the locals of the predict_daily_range call in progress
    ret,         \* the last finished call: its arguments and its outcome
    memo,        \* what a recording process noted of its calls, or NoRet
    threads      \* concurrent callers: the dicts they created, the one _MODELS
                 \* names, and each caller's position and locals; << >> if none

vars == <<impl, disk, MODELS, MODIS_DF, WEIGHTS, pc, call, ret, memo, threads>>

\* what a sequential process that records nothing leaves alone
aux == <<memo, threads>>

(***************************************************************************)
(* Arithmetic                                                              *)
(***************************************************************************)
Max2(a, b) == IF a >= b THEN a ELSE b

Min2(a, b) == IF a <= b THEN a ELSE b

\* a / b (b > 0) rounded to the nearest integer, ties to even
RoundDiv(a, b) ==
    LET q == a \div b
        r == a % b
    IN  IF 2 * r < b THEN q
        ELSE IF 2 * r > b THEN q + 1
        ELSE IF q % 2 = 0 THEN q ELSE q + 1

\* round(x, n): the nearest multiple of step
RoundTo(x, step) == RoundDiv(x, step) * step

\* x * (num / den)
MulRatio(x, num, den) == RoundDiv(x * num, den)

RECURSIVE SeqSum(_)
SeqSum(s) == IF s = << >> THEN 0 ELSE Head(s) + SeqSum(Tail(s))

RECURSIVE SeqMin(_)
SeqMin(s) == IF Len(s) = 1 THEN s[1] ELSE Min2(Head(s), SeqMin(Tail(s)))

RECURSIVE SeqMax(_)
SeqMax(s) == IF Len(s) = 1 THEN s[1] ELSE Max2(Head(s), SeqMax(Tail(s)))

\* round(np.mean(s), n) of a non-empty list: the mean to the nearest step
MeanRound(s, step) == RoundDiv(SeqSum(s), Len(s) * step) * step

\* 1000 * sin(2 * pi * n / d), Bhaskara's rational approximation
SinTurn(n, d) ==
    LET m == n % d
        p == IF 2 * m <= d THEN 2 * m ELSE 2 * m - d
        v == 10 * RoundDiv(1600 * p * (d - p), 5 * d * d - 4 * p * (d - p))
    IN  IF 2 * m <= d THEN v ELSE 0 - v

\* 1000 * cos(2 * pi * n / d)
CosTurn(n, d) == SinTurn(4 * n + d, 4 * d)

(***************************************************************************)
(* Calendar: pd.to_datetime, strftime('%Y-%m-%d'), timedelta(days=1)       *)
(***************************************************************************)
IsLeap(y) == (y % 4 = 0) /\ ((y % 100 # 0) \/ (y % 400 = 0))

DaysInMonth(y, m) ==
    IF m = 2 THEN (IF IsLeap(y) THEN 29 ELSE 28)
    ELSE IF m \in {4, 6, 9, 11} THEN 30 ELSE 31

RECURSIVE DaysBeforeMonth(_, _)
DaysBeforeMonth(y, m) ==
    IF m = 1 THEN 0 ELSE DaysBeforeMonth(y, m - 1) + DaysInMonth(y, m - 1)

DaysBeforeYear(y) ==
    (y - 1) * 365 + ((y - 1) \div 4) - ((y - 1) \div 100) + ((y - 1) \div 400)

\* the calendar dates a date string can name
IsCalendarDate(s) ==
    /\ s[2] \in 1..12
    /\ s[3] >= 1
    /\ s[3] <= DaysInMonth(s[1], s[2])

\* proleptic Gregorian ordinal of a calendar date
ToOrdinal(s) == DaysBeforeYear(s[1]) + DaysBeforeMonth(s[1], s[2]) + s[3]

Years == 2024..2027

\* the date string of an ordinal: current.strftime('%Y-%m-%d')
strftime(n) ==
    LET y == CHOOSE yy \in Years :
                 DaysBeforeYear(yy) < n /\ n <= DaysBeforeYear(yy + 1)
        doy == n - DaysBeforeYear(y)
        m == CHOOSE mm \in 1..12 :
                 /\ DaysBeforeMonth(y, mm) < doy
                 /\ doy <= DaysBeforeMonth(y, mm) + DaysInMonth(y, mm)
    IN  <<y, m, doy - DaysBeforeMonth(y, m)>>

\* date_obj.dayofyear
dayofyear(s) == DaysBeforeMonth(s[1], s[2]) + s[3]

(***************************************************************************)
(* Exceptions.  A call returns Ok(v) or Raise(class).                      *)
(***************************************************************************)
Ok(v) == [kind |-> "ok", val |-> v]

Raise(e) == [kind |-> "raise", exc |-> e]

\* the classes for which "except ValueError" matches
ValueErrorClass == {"ValueError", "DateParseError"}

\* the classes for which "except Exception" matches (every class used here)
ExceptionClass ==
    ValueErrorClass \cup
    {"TypeError", "KeyError", "FileNotFoundError", "UnpicklingError", "RuntimeError"}

\* pd.to_datetime(date_str): the ordinal, or DateParseError
to_datetime(s) == IF IsCalendarDate(s) THEN Ok(ToOrdinal(s)) ELSE Raise("DateParseError")

(***************************************************************************)
(* Python's None, and the files on disk                                    *)
(***************************************************************************)
None == [none |-> TRUE]

Absent == [absent |-> TRUE]

Corrupt == [corrupt |-> TRUE]

\* with open(path, 'rb') as f: pickle.load(f)
pickle_load(file) ==
    IF file = Absent THEN Raise("FileNotFoundError")
    ELSE IF file = Corrupt THEN Raise("UnpicklingError")
    ELSE Ok(file)

\* os.path.exists(path)
path_exists(file) == file # Absent

(***************************************************************************)
(* Model artifacts: {'model', 'scaler', 'feature_names'}.  The scaler is   *)
(* a per-column shift fitted on Len(feature_names) columns; the regressor  *)
(* is a tree that splits one scaled column at three thresholds.            *)
(***************************************************************************)
IndexOf(seq, x) == CHOOSE i \in 1..Len(seq) : seq[i] = x

\* scaler.transform(X): sklearn rejects a frame with the wrong column count
transform(scaler, X) ==
    IF Len(X) # Len(scaler) THEN Raise("ValueError")
    ELSE Ok([i \in 1..Len(X) |-> X[i] - scaler[i]])

\* model.predict(X_scaled)[0]
predict(model, Xs) ==
    LET v == Xs[model.col]
        leaf == 1 + Cardinality({i \in 1..Len(model.split) : v > model.split[i]})
    IN  model.leaf[leaf]

\* an artifact whose tree splits on the season column
SeasonArtifact(names, leaves) ==
    [feature_names |-> names,
     scaler |-> [i \in 1..Len(names) |-> IF names[i] = "season" THEN 2500 ELSE 0],
     model |-> [col |-> IndexOf(names, "season"),
                split |-> <<-1000, 0, 1000>>,
                leaf |-> leaves]]

TempFeatures ==
    <<"MOD11A1_061_LST_Day_1km", "MOD11A1_061_LST_Night_1km",
      "MOD11A1_061_Clear_day_cov", "month", "day_of_year", "season">>

OtherFeatures ==
    <<"MOD09GA_061_sur_refl_b01_1", "MOD16A2_061_ET_500m", "month", "season">>

\* temperature_model_finetuned.pkl / temperature_model_full.pkl, degrees C
TempFinetunedArt == SeasonArtifact(TempFeatures, <<-4000, 11000, 29000, 13300>>)

TempFullArt == SeasonArtifact(TempFeatures, <<-5000, 10000, 28000, 12300>>)

\* precipitation in mm: a negative, a small, a large and a moderate output
PrecipArt == SeasonArtifact(OtherFeatures, <<-2000, 400, 12000, 3000>>)

\* vapor pressure in Pa: below 0 %, mid range, far above 100 %, about 91 %
HumidityArt == SeasonArtifact(OtherFeatures, <<-300000, 900000, 2000000, 1500000>>)

\* cloud-cover proxy in %
CloudArt == SeasonArtifact(OtherFeatures, <<-80000, 10000, 90000, 40000>>)

\* wind proxy, 330 is calm
WindArt == SeasonArtifact(OtherFeatures, <<300000, 332000, 600000, 335000>>)

(***************************************************************************)
(* predict_simple.py                                                       *)
(***************************************************************************)
model_names == <<"temperature", "precipitation", "humidity", "cloud", "wind">>

\* (c * 9/5) + 32
celsius_to_fahrenheit(c) == MulRatio(c, 9, 5) + 32000

\* the season code without the wrap of December
season_of_no_wrap(month) == (month + 3) \div 3

\* season = (month % 12 + 3) // 3
season_of(month) == ((month % 12) + 3) \div 3

\* the file _load_models opens for a model name
model_path(files, name) ==
    IF name = "temperature"
    THEN (IF path_exists(files.temperature_finetuned)
          THEN files.temperature_finetuned ELSE files.temperature_full)
    ELSE IF name = "precipitation" THEN files.precipitation_full
    ELSE IF name = "humidity" THEN files.humidity_full
    ELSE IF name = "cloud" THEN files.cloud_full
    ELSE files.wind_full

\* the try/except around one pickle.load: the artifact, or None
load_one(files, name) ==
    LET r == pickle_load(model_path(files, name))
    IN  IF r.kind = "ok" THEN r.val ELSE None

\* _load_models() that tries again to load the entries recorded as None
load_models_retry_missing(cache, files) ==
    IF cache = None
    THEN [name \in {model_names[i] : i \in 1..Len(model_names)} |-> load_one(files, name)]
    ELSE [name \in DOMAIN cache |->
             IF cache[name] = None THEN load_one(files, name) ELSE cache[name]]

\* _load_models(): the cache after the call
load_models(cache, files) ==
    IF cache = None
    THEN [name \in {model_names[i] : i \in 1..Len(model_names)} |-> load_one(files, name)]
    ELSE cache

\* the seasonal base values of _generate_features
seasonal(season) ==
    IF season = 1
    THEN [lst_day_base |-> 268150, lst_night_base |-> 263150, clear_cov |-> 400,
          snow_cover |-> 300, et |-> 50000, le |-> 100000, evi |-> 200,
          ndvi |-> 300, pet |-> 80000]
    ELSE IF season = 2
    THEN [lst_day_base |-> 283150, lst_night_base |-> 278150, clear_cov |-> 600,
          snow_cover |-> 50, et |-> 150000, le |-> 300000, evi |-> 500,
          ndvi |-> 600, pet |-> 200000]
    ELSE IF season = 3
    THEN [lst_day_base |-> 298150, lst_night_base |-> 291150, clear_cov |-> 700,
          snow_cover |-> 0, et |-> 250000, le |-> 500000, evi |-> 700,
          ndvi |-> 800, pet |-> 350000]
    ELSE [lst_day_base |-> 285150, lst_night_base |-> 280150, clear_cov |-> 500,
          snow_cover |-> 100, et |-> 100000, le |-> 200000, evi |-> 400,
          ndvi |-> 500, pet |-> 150000]

\* the features dict of _generate_features for a parsed date
features_dict(s) ==
    LET features(month, day_of_year, season, b, daily_var) ==
            [MOD09GA_061_sur_refl_b01_1 |-> 150,
             MOD09GA_061_sur_refl_b02_1 |-> 200,
             MOD09GA_061_sur_refl_b03_1 |-> 100,
             MOD09GA_061_sur_refl_b04_1 |-> 150,
             MOD09GA_061_sur_refl_b05_1 |-> 180,
             MOD09GA_061_sur_refl_b06_1 |-> 120,
             MOD09GA_061_sur_refl_b07_1 |-> 80,
             MOD09GA_061_SolarAzimuth_1 |-> 180000,
             MOD09GA_061_SolarZenith_1 |-> 45000 + MulRatio(CosTurn(day_of_year, 365), 20, 1),
             MOD09GA_061_SensorAzimuth_1 |-> 180000,
             MOD09GA_061_SensorZenith_1 |-> 45000,
             MOD09GA_061_Range_1 |-> 1000000,
             MOD09GA_061_iobs_res_1 |-> 500000,
             MOD11A1_061_LST_Day_1km |-> b.lst_day_base + daily_var,
             MOD11A1_061_LST_Night_1km |-> b.lst_night_base + daily_var,
             MOD11A1_061_Emis_31 |-> 985,
             MOD11A1_061_Emis_32 |-> 985,
             MOD11A1_061_Clear_day_cov |-> b.clear_cov,
             MOD11A1_061_Clear_night_cov |-> b.clear_cov,
             MOD10A1_061_NDSI_Snow_Cover |-> b.snow_cover,
             MOD10A1_061_Snow_Albedo_Daily_Tile |-> MulRatio(b.snow_cover, 8, 10),
             MOD10A1_061_NDSI_Snow_Cover_Algorithm_Flags_QA |-> 0,
             MOD13A1_061__500m_16_days_NDVI |-> b.ndvi,
             MOD13A1_061__500m_16_days_EVI |-> b.evi,
             MOD13A1_061__500m_16_days_VI_Quality |-> 0,
             MOD16A2_061_ET_500m |-> b.et,
             MOD16A2_061_LE_500m |-> b.le,
             MOD16A2_061_PET_500m |-> b.pet,
             month |-> month * 1000,
             day_of_year |-> day_of_year * 1000,
             season |-> season * 1000]
    IN  features(s[2], dayofyear(s), season_of(s[2]), seasonal(season_of(s[2])),
                 MulRatio(SinTurn(dayofyear(s), 365), 5, 1))

\* a feature builder that takes its columns from the loaded temperature model
generate_features_registry_columns(date_str, feature_names) ==
    LET frame(features, cols) == [i \in 1..Len(cols) |-> features[cols[i]]]
        wanted == IF MODELS # None /\ MODELS.temperature # None
                  THEN MODELS.temperature.feature_names ELSE feature_names
        select(features) ==
            frame(features, SelectSeq(wanted, LAMBDA f : f \in DOMAIN features))
        build(date_obj) == IF date_obj.kind = "raise" THEN date_obj
                           ELSE Ok(select(features_dict(date_str)))
    IN  build(to_datetime(date_str))

\* _generate_features(date_str, feature_names): the one-row frame, columns in
\* the order of feature_names, names the dict lacks dropped
generate_features(date_str, feature_names) ==
    LET frame(features, cols) == [i \in 1..Len(cols) |-> features[cols[i]]]
        select(features) ==
            frame(features, SelectSeq(feature_names, LAMBDA f : f \in DOMAIN features))
        build(date_obj) == IF date_obj.kind = "raise" THEN date_obj
                           ELSE Ok(select(features_dict(date_str)))
    IN  build(to_datetime(date_str))

\* features -> scaler -> regressor for one artifact; fault is an unexpected
\* exception inside the regressor
infer(art, date_str, fault) ==
    LET scale(X) == IF X.kind = "raise" THEN X ELSE transform(art.scaler, X.val)
        regress(Xs) == IF Xs.kind = "raise" THEN Xs
                       ELSE IF fault THEN Raise("RuntimeError")
                       ELSE Ok(predict(art.model, Xs.val))
    IN  regress(scale(generate_features(date_str, art.feature_names)))

\* the hour chain with the morning bucket closed at 12
simple_time_branch_inclusive(hour) ==
    IF 6 <= hour /\ hour <= 12
    THEN [time_period |-> "morning", feels_like_adjustment |-> -1000]
    ELSE IF 12 <= hour /\ hour < 18
    THEN [time_period |-> "afternoon", feels_like_adjustment |-> 3000]
    ELSE IF 18 <= hour /\ hour < 21
    THEN [time_period |-> "evening", feels_like_adjustment |-> 1000]
    ELSE [time_period |-> "night", feels_like_adjustment |-> -2000]

\* "Time-based feels-like adjustment": the branch the hour selects, with the
\* time_period and the feels_like_adjustment (degrees F) it assigns
simple_time_branch(hour) ==
    IF 6 <= hour /\ hour < 12
    THEN [time_period |-> "morning", feels_like_adjustment |-> -1000]
    ELSE IF 12 <= hour /\ hour < 18
    THEN [time_period |-> "afternoon", feels_like_adjustment |-> 3000]
    ELSE IF 18 <= hour /\ hour < 21
    THEN [time_period |-> "evening", feels_like_adjustment |-> 1000]
    ELSE [time_period |-> "night", feels_like_adjustment |-> -2000]

\* the multipliers with the night window of the humidity adjustment, hour <= 5
simple_precip_adjust_wide_night(precip_mm, hour) ==
    IF 15 <= hour /\ hour <= 18 THEN MulRatio(precip_mm, 13, 10)
    ELSE IF 21 <= hour \/ hour <= 5 THEN MulRatio(precip_mm, 8, 10)
    ELSE IF 5 <= hour /\ hour <= 8 THEN MulRatio(precip_mm, 11, 10)
    ELSE precip_mm

\* the time-of-day multiplier of precipitation
simple_precip_adjust(precip_mm, hour) ==
    IF 15 <= hour /\ hour <= 18 THEN MulRatio(precip_mm, 13, 10)
    ELSE IF 5 <= hour /\ hour <= 8 THEN MulRatio(precip_mm, 11, 10)
    ELSE IF 21 <= hour \/ hour <= 3 THEN MulRatio(precip_mm, 8, 10)
    ELSE precip_mm

\* ===== PRECIPITATION =====
simple_precip(models, date_str, hour) ==
    IF models.precipitation = None THEN Ok(0)
    ELSE LET adjust(r) == IF r.kind = "raise" THEN r
                          ELSE Ok(simple_precip_adjust(Max2(0, r.val), hour))
         IN  adjust(infer(models.precipitation, date_str, FALSE))

\* the humidity adjustment with the night test taken before the morning one
simple_humidity_adjust_night_first(humidity_percent, hour) ==
    IF 21 <= hour \/ hour <= 5 THEN Min2(100000, MulRatio(humidity_percent, 11, 10))
    ELSE IF 5 <= hour /\ hour <= 9 THEN Min2(100000, MulRatio(humidity_percent, 115, 100))
    ELSE IF 13 <= hour /\ hour <= 17 THEN Max2(20000, MulRatio(humidity_percent, 9, 10))
    ELSE humidity_percent

\* the humidity adjustment without the min(100, ...) around the multipliers
simple_humidity_adjust_unclamped(humidity_percent, hour) ==
    IF 5 <= hour /\ hour <= 9 THEN MulRatio(humidity_percent, 115, 100)
    ELSE IF 21 <= hour \/ hour <= 5 THEN MulRatio(humidity_percent, 11, 10)
    ELSE IF 13 <= hour /\ hour <= 17 THEN Max2(20000, MulRatio(humidity_percent, 9, 10))
    ELSE humidity_percent

\* the time-of-day adjustment of humidity
simple_humidity_adjust(humidity_percent, hour) ==
    IF 5 <= hour /\ hour <= 9 THEN Min2(100000, MulRatio(humidity_percent, 115, 100))
    ELSE IF 21 <= hour \/ hour <= 5 THEN Min2(100000, MulRatio(humidity_percent, 11, 10))
    ELSE IF 13 <= hour /\ hour <= 17 THEN Max2(20000, MulRatio(humidity_percent, 9, 10))
    ELSE humidity_percent

\* ===== HUMIDITY =====
simple_humidity(models, date_str, hour) ==
    IF models.humidity = None THEN Ok(50000)
    ELSE LET adjust(r) ==
                 IF r.kind = "raise" THEN r
                 ELSE Ok(simple_humidity_adjust(
                            Min2(100000, Max2(0, MulRatio(r.val, 10, 165))), hour))
         IN  adjust(infer(models.humidity, date_str, FALSE))

\* ===== CLOUD COVER =====
simple_cloud(models, date_str) ==
    IF models.cloud = None THEN Ok(50000)
    ELSE LET clamp(r) == IF r.kind = "raise" THEN r
                         ELSE Ok(Min2(100000, Max2(0, r.val + 32500)))
         IN  clamp(infer(models.cloud, date_str, FALSE))

\* the time-of-day multiplier of wind speed
simple_wind_adjust(wind_speed_ms, hour) ==
    IF 12 <= hour /\ hour <= 17 THEN MulRatio(wind_speed_ms, 12, 10)
    ELSE IF 21 <= hour \/ hour <= 5 THEN MulRatio(wind_speed_ms, 8, 10)
    ELSE wind_speed_ms

\* the wind section with the time-of-day adjustment placed after the "if"
\* block, so that it also scales the default
simple_wind_adjusted_default(models, date_str, hour) ==
    IF models.wind = None THEN Ok(simple_wind_adjust(3000, hour))
    ELSE LET adjust(r) ==
                 IF r.kind = "raise" THEN r
                 ELSE Ok(simple_wind_adjust(
                            Max2(0, MulRatio(r.val - 330000, 13, 10)), hour))
         IN  adjust(infer(models.wind, date_str, FALSE))

\* ===== WIND SPEED =====
simple_wind(models, date_str, hour) ==
    IF models.wind = None THEN Ok(3000)
    ELSE LET adjust(r) ==
                 IF r.kind = "raise" THEN r
                 ELSE Ok(simple_wind_adjust(
                            Max2(0, MulRatio(r.val - 330000, 13, 10)), hour))
         IN  adjust(infer(models.wind, date_str, FALSE))

\* the "feel" word of the description
feel_of(feels_like_f) ==
    IF feels_like_f < 32000 THEN "Freezing"
    ELSE IF feels_like_f < 50000 THEN "Cold"
    ELSE IF feels_like_f < 65000 THEN "Cool"
    ELSE IF feels_like_f < 75000 THEN "Comfortable"
    ELSE IF feels_like_f < 85000 THEN "Warm"
    ELSE "Hot"

\* the weather conditions of the description
conditions_of(precip_mm, cloud_cover_percent, wind_speed_mph) ==
    (IF precip_mm > 5000 THEN <<"rainy">>
     ELSE IF precip_mm > 1000 THEN <<"light rain">> ELSE << >>)
    \o (IF cloud_cover_percent > 75000 THEN <<"cloudy">>
        ELSE IF cloud_cover_percent > 50000 THEN <<"partly cloudy">>
        ELSE IF cloud_cover_percent < 25000 THEN <<"clear">> ELSE << >>)
    \o (IF wind_speed_mph > 20000 THEN <<"windy">> ELSE << >>)

\* the dict predict_hourly returns
simple_record(date_str, hour, temp_c, precip_mm, humidity_percent, cloud_cover_percent, wind_speed_ms) ==
    LET temp_f == celsius_to_fahrenheit(temp_c)
        feels_like_f == temp_f + simple_time_branch(hour).feels_like_adjustment
        feels_like_c == MulRatio(feels_like_f - 32000, 5, 9)
        precip_inches == MulRatio(precip_mm, 10, 254)
        wind_speed_mph == MulRatio(wind_speed_ms, 2237, 1000)
    IN  [date |-> date_str,
         hour |-> hour,
         temperature_f |-> RoundTo(temp_f, 100),
         feels_like_f |-> RoundTo(feels_like_f, 100),
         temperature_c |-> RoundTo(temp_c, 100),
         feels_like_c |-> RoundTo(feels_like_c, 100),
         precipitation_mm |-> RoundTo(precip_mm, 10),
         precipitation_inches |-> RoundTo(precip_inches, 1),
         humidity_percent |-> RoundTo(humidity_percent, 100),
         cloud_cover_percent |-> RoundTo(cloud_cover_percent, 100),
         wind_speed_mph |-> RoundTo(wind_speed_mph, 100),
         wind_speed_ms |-> RoundTo(wind_speed_ms, 100),
         time_period |-> simple_time_branch(hour).time_period,
         description |-> <<feel_of(feels_like_f), simple_time_branch(hour).time_period,
                           conditions_of(precip_mm, cloud_cover_percent,
                                         wind_speed_mph)>>]

\* the temperature section: subscripting None raises TypeError before the
\* date is parsed
simple_temperature(models, date_str, fault) ==
    IF models.temperature = None THEN Raise("TypeError")
    ELSE infer(models.temperature, date_str, fault)

\* predict_hourly with the wind keys written only inside "if models['wind']"
simple_predict_hourly_partial(models, date_str, hour, fault) ==
    LET without_wind(rec) ==
            [k \in DOMAIN rec \ {"wind_speed_ms", "wind_speed_mph"} |-> rec[k]]
        compile(t, p, h, c, w) ==
            IF t.kind = "raise" THEN t
            ELSE IF p.kind = "raise" THEN p
            ELSE IF h.kind = "raise" THEN h
            ELSE IF c.kind = "raise" THEN c
            ELSE IF w.kind = "raise" THEN w
            ELSE IF models.wind = None
            THEN Ok(without_wind(simple_record(date_str, hour, t.val, p.val, h.val,
                                               c.val, w.val)))
            ELSE Ok(simple_record(date_str, hour, t.val, p.val, h.val, c.val, w.val))
    IN  compile(simple_temperature(models, date_str, fault),
                simple_precip(models, date_str, hour),
                simple_humidity(models, date_str, hour),
                simple_cloud(models, date_str),
                simple_wind(models, date_str, hour))

\* predict_hourly(date_str, hour) on the loaded registry: the returned dict,
\* or the exception that leaves the function
simple_predict_hourly(models, date_str, hour, fault) ==
    LET compile(t, p, h, c, w) ==
            IF t.kind = "raise" THEN t
            ELSE IF p.kind = "raise" THEN p
            ELSE IF h.kind = "raise" THEN h
            ELSE IF c.kind = "raise" THEN c
            ELSE IF w.kind = "raise" THEN w
            ELSE Ok(simple_record(date_str, hour, t.val, p.val, h.val, c.val, w.val))
    IN  compile(simple_temperature(models, date_str, fault),
                simple_precip(models, date_str, hour),
                simple_humidity(models, date_str, hour),
                simple_cloud(models, date_str),
                simple_wind(models, date_str, hour))

\* the hours predict_daily_range samples
sample_hours == <<0, 6, 12, 18>>

\* the column of one key over the hourly predictions
Column(preds, key) == [i \in 1..Len(preds) |-> preds[i][key]]

\* the daily row with precipitation averaged like the other columns
simple_daily_row_mean_precip(date_str, hourly_predictions) ==
    LET temps_f == Column(hourly_predictions, "temperature_f")
    IN  [date |-> date_str,
         avg_temperature_f |-> MeanRound(temps_f, 100),
         avg_feels_like_f |-> MeanRound(Column(hourly_predictions, "feels_like_f"), 100),
         avg_temperature_c |-> MeanRound(Column(hourly_predictions, "temperature_c"), 100),
         avg_feels_like_c |-> MeanRound(Column(hourly_predictions, "feels_like_c"), 100),
         total_precipitation_mm |->
             MeanRound(Column(hourly_predictions, "precipitation_mm"), 10),
         total_precipitation_inches |->
             MeanRound(Column(hourly_predictions, "precipitation_inches"), 1),
         avg_humidity_percent |->
             MeanRound(Column(hourly_predictions, "humidity_percent"), 100),
         avg_cloud_cover_percent |->
             MeanRound(Column(hourly_predictions, "cloud_cover_percent"), 100),
         avg_wind_speed_mph |-> MeanRound(Column(hourly_predictions, "wind_speed_mph"), 100),
         avg_wind_speed_ms |-> MeanRound(Column(hourly_predictions, "wind_speed_ms"), 100),
         min_temp_f |-> RoundTo(SeqMin(temps_f), 100),
         max_temp_f |-> RoundTo(SeqMax(temps_f), 100)]

\* the row predict_daily_range appends for a date with at least one sample
simple_daily_row(date_str, hourly_predictions) ==
    LET temps_f == Column(hourly_predictions, "temperature_f")
        feels_f == Column(hourly_predictions, "feels_like_f")
        temps_c == Column(hourly_predictions, "temperature_c")
        feels_c == Column(hourly_predictions, "feels_like_c")
        precip_mm == Column(hourly_predictions, "precipitation_mm")
        precip_in == Column(hourly_predictions, "precipitation_inches")
        humidity == Column(hourly_predictions, "humidity_percent")
        clouds == Column(hourly_predictions, "cloud_cover_percent")
        wind_mph == Column(hourly_predictions, "wind_speed_mph")
        wind_ms == Column(hourly_predictions, "wind_speed_ms")
    IN  [date |-> date_str,
         avg_temperature_f |-> MeanRound(temps_f, 100),
         avg_feels_like_f |-> MeanRound(feels_f, 100),
         avg_temperature_c |-> MeanRound(temps_c, 100),
         avg_feels_like_c |-> MeanRound(feels_c, 100),
         total_precipitation_mm |-> RoundTo(SeqSum(precip_mm), 10),
         total_precipitation_inches |-> RoundTo(SeqSum(precip_in), 1),
         avg_humidity_percent |-> MeanRound(humidity, 100),
         avg_cloud_cover_percent |-> MeanRound(clouds, 100),
         avg_wind_speed_mph |-> MeanRound(wind_mph, 100),
         avg_wind_speed_ms |-> MeanRound(wind_ms, 100),
         min_temp_f |-> RoundTo(SeqMin(temps_f), 100),
         max_temp_f |-> RoundTo(SeqMax(temps_f), 100)]

\* the span check taken on the distance between the two dates
span_too_long_either_way(start, end) ==
    (IF end - start < 0 THEN start - end ELSE end - start) > 365

\* the span check with its limit one day too high
span_too_long_off_by_one(start, end) == (end - start) > 366

\* the span check of predict_daily_range on the parsed dates
span_too_long(start, end) == (end - start) > 365

\* predict_daily_range up to the loop: the parsed <<start, end>>, or the
\* exception raised before the loop
range_validate(start_date, end_date) ==
    LET start == to_datetime(start_date)
        end == to_datetime(end_date)
    IN  IF start.kind = "raise" THEN start
        ELSE IF end.kind = "raise" THEN end
        ELSE IF span_too_long(start.val, end.val) THEN Raise("ValueError")
        ELSE Ok(<<start.val, end.val>>)

(***************************************************************************)
(* predict.py                                                              *)
(***************************************************************************)
\* the weights _load_resources falls back to when tuned_weights.pkl is absent
DefaultWeights ==
    [temp_morning_offset |-> -5842,
     temp_afternoon_offset |-> -2342,
     temp_evening_offset |-> -3842,
     temp_night_offset |-> -6342,
     temp_cloud_day_factor |-> -1000,
     temp_cloud_night_factor |-> 1500,
     precip_morning_mult |-> 1150,
     precip_afternoon_mult |-> 1250,
     precip_night_mult |-> 850,
     humidity_vp_to_rh_factor |-> 16448,
     cloud_baseline_offset |-> 32543,
     wind_proxy_scale |-> 1318]

\* a tuned_weights.pkl as validate_and_tune.py writes it
TunedWeights ==
    [temp_morning_offset |-> -500,
     temp_afternoon_offset |-> 3000,
     temp_evening_offset |-> 1500,
     temp_night_offset |-> -1000,
     temp_cloud_day_factor |-> -1000,
     temp_cloud_night_factor |-> 1500,
     precip_morning_mult |-> 1150,
     precip_afternoon_mult |-> 1250,
     precip_night_mult |-> 850,
     humidity_vp_to_rh_factor |-> 25000,
     cloud_baseline_offset |-> 50000,
     wind_proxy_scale |-> 500]

\* the merged Chicago-MOD*.csv frames: one row per observation date
ModisRows ==
    <<[Date |-> ToOrdinal(<<2025, 1, 10>>),
       MOD11A1_061_LST_Day_1km |-> 270000,
       MOD11A1_061_LST_Night_1km |-> 262000,
       MOD11A1_061_Clear_day_cov |-> 300,
       MOD16A2_061_ET_500m |-> 40000],
      [Date |-> ToOrdinal(<<2025, 7, 20>>),
       MOD11A1_061_LST_Day_1km |-> 301000,
       MOD11A1_061_LST_Night_1km |-> 292000,
       MOD11A1_061_Clear_day_cov |-> 800,
       MOD16A2_061_ET_500m |-> 260000]>>

\* the names _load_resources has put into _MODELS: those before the first
\* file that fails to load
RECURSIVE full_load_models(_, _, _)
full_load_models(files, i, acc) ==
    IF i > Len(model_names) THEN [models |-> acc, result |-> Ok(TRUE)]
    ELSE LET name == model_names[i]
             file == IF name = "temperature" THEN files.temperature_full
                     ELSE IF name = "precipitation" THEN files.precipitation_full
                     ELSE IF name = "humidity" THEN files.humidity_full
                     ELSE IF name = "cloud" THEN files.cloud_full
                     ELSE files.wind_full
             r == pickle_load(file)
         IN  IF r.kind = "raise" THEN [models |-> acc, result |-> r]
             ELSE full_load_models(files, i + 1,
                      [n \in DOMAIN acc \cup {name} |->
                          IF n = name THEN r.val ELSE acc[n]])

\* the empty dict {}
EmptyDict == [n \in {} |-> None]

\* _load_resources() that opens the five model files on every call
load_resources_reload_models(models, modis_df, weights, files) ==
    LET m == full_load_models(files, 1, EmptyDict)
        df == IF modis_df # None THEN Ok(modis_df)
              ELSE IF files.modis = Absent THEN Raise("FileNotFoundError")
              ELSE Ok([rows |-> files.modis, date_diff |-> << >>])
        w == IF weights # None THEN Ok(weights)
             ELSE IF path_exists(files.weights) THEN pickle_load(files.weights)
             ELSE Ok(DefaultWeights)
    IN  IF m.result.kind = "raise"
        THEN [MODELS |-> m.models, MODIS_DF |-> modis_df, WEIGHTS |-> weights,
              result |-> m.result]
        ELSE IF df.kind = "raise"
        THEN [MODELS |-> m.models, MODIS_DF |-> modis_df, WEIGHTS |-> weights,
              result |-> df]
        ELSE IF w.kind = "raise"
        THEN [MODELS |-> m.models, MODIS_DF |-> df.val, WEIGHTS |-> weights,
              result |-> w]
        ELSE [MODELS |-> m.models, MODIS_DF |-> df.val, WEIGHTS |-> w.val,
              result |-> Ok(TRUE)]

\* _load_resources(): the three globals after the call and its outcome
load_resources(models, modis_df, weights, files) ==
    LET m == IF models = None THEN full_load_models(files, 1, EmptyDict)
             ELSE [models |-> models, result |-> Ok(TRUE)]
        df == IF modis_df # None THEN Ok(modis_df)
              ELSE IF files.modis = Absent THEN Raise("FileNotFoundError")
              ELSE Ok([rows |-> files.modis, date_diff |-> << >>])
        w == IF weights # None THEN Ok(weights)
             ELSE IF path_exists(files.weights) THEN pickle_load(files.weights)
             ELSE Ok(DefaultWeights)
    IN  IF m.result.kind = "raise"
        THEN [MODELS |-> m.models, MODIS_DF |-> modis_df, WEIGHTS |-> weights,
              result |-> m.result]
        ELSE IF df.kind = "raise"
        THEN [MODELS |-> m.models, MODIS_DF |-> modis_df, WEIGHTS |-> weights,
              result |-> df]
        ELSE IF w.kind = "raise"
        THEN [MODELS |-> m.models, MODIS_DF |-> df.val, WEIGHTS |-> weights,
              result |-> w]
        ELSE [MODELS |-> m.models, MODIS_DF |-> df.val, WEIGHTS |-> w.val,
              result |-> Ok(TRUE)]

Abs(x) == IF x < 0 THEN 0 - x ELSE x

\* _MODIS_DF['date_diff'] = abs((_MODIS_DF['Date'] - target_date).dt.days)
date_diff_of(rows, target) == [i \in 1..Len(rows) |-> Abs(rows[i].Date - target)]

\* idxmin() taken on the date_diff column as the previous call left it
idxmin_previous(col) ==
    LET old == IF MODIS_DF # None /\ MODIS_DF.date_diff # << >>
               THEN MODIS_DF.date_diff ELSE col
    IN  CHOOSE i \in 1..Len(old) :
            /\ \A j \in 1..Len(old) : old[i] <= old[j]
            /\ \A j \in 1..(i - 1) : old[j] > old[i]

\* Series.idxmin(): the first index holding the minimum
idxmin(col) == CHOOSE i \in 1..Len(col) :
                   /\ \A j \in 1..Len(col) : col[i] <= col[j]
                   /\ \A j \in 1..(i - 1) : col[j] > col[i]

\* modis_row.get(feat, default)
row_get(row, feat, default) == IF feat \in DOMAIN row THEN row[feat] ELSE default

\* build_features(feature_names) of predict.py
build_features(date_str, modis_row, feature_names) ==
    [i \in 1..Len(feature_names) |->
        IF feature_names[i] = "month" THEN date_str[2] * 1000
        ELSE IF feature_names[i] = "day_of_year" THEN dayofyear(date_str) * 1000
        ELSE IF feature_names[i] = "season" THEN season_of(date_str[2]) * 1000
        ELSE row_get(modis_row, feature_names[i], 0)]

\* features -> scaler -> regressor for _MODELS[name]; a name the registry
\* lacks is a KeyError
full_infer(models, name, date_str, modis_row, fault) ==
    IF name \notin DOMAIN models THEN Raise("KeyError")
    ELSE LET art == models[name]
             Xs == transform(art.scaler,
                             build_features(date_str, modis_row, art.feature_names))
         IN  IF Xs.kind = "raise" THEN Xs
             ELSE IF fault THEN Raise("RuntimeError")
             ELSE Ok(predict(art.model, Xs.val))

\* the offset chosen for the hour taken on the 24-hour clock
full_time_offset_wrapped(weights, hour) ==
    LET h == hour % 24
    IN  IF 6 <= h /\ h < 12 THEN weights.temp_morning_offset
        ELSE IF 12 <= h /\ h < 18 THEN weights.temp_afternoon_offset
        ELSE IF 18 <= h /\ h < 21 THEN weights.temp_evening_offset
        ELSE weights.temp_night_offset

\* the time-based offset added to base_temp
full_time_offset(weights, hour) ==
    IF 6 <= hour /\ hour < 12 THEN weights.temp_morning_offset
    ELSE IF 12 <= hour /\ hour < 18 THEN weights.temp_afternoon_offset
    ELSE IF 18 <= hour /\ hour < 21 THEN weights.temp_evening_offset
    ELSE weights.temp_night_offset

\* validate_and_tune.predict_with_weights: the cloud term it adds to feels_like
vt_cloud_effect(weights, clear_cov, hour) ==
    IF hour >= 6 /\ hour < 18
    THEN MulRatio(1000 - clear_cov, weights.temp_cloud_day_factor, 1000)
    ELSE MulRatio(1000 - clear_cov, weights.temp_cloud_night_factor, 1000)

\* the cloud term with the day factor kept through the evening bucket
full_cloud_effect_until_evening(weights, clear_cov, hour) ==
    IF 6 <= hour /\ hour < 21
    THEN MulRatio(1000 - clear_cov, weights.temp_cloud_day_factor, 1000)
    ELSE MulRatio(1000 - clear_cov, weights.temp_cloud_night_factor, 1000)

\* the cloud term added to feels_like
full_cloud_effect(weights, clear_cov, hour) ==
    IF 6 <= hour /\ hour < 18
    THEN MulRatio(1000 - clear_cov, weights.temp_cloud_day_factor, 1000)
    ELSE MulRatio(1000 - clear_cov, weights.temp_cloud_night_factor, 1000)

\* the time multipliers of precipitation without the final clamp
full_precip_unclamped(weights, base_precip, hour) ==
    IF 5 <= hour /\ hour <= 8
    THEN MulRatio(base_precip, weights.precip_morning_mult, 1000)
    ELSE IF 15 <= hour /\ hour <= 18
    THEN MulRatio(base_precip, weights.precip_afternoon_mult, 1000)
    ELSE IF 21 <= hour \/ hour <= 3
    THEN MulRatio(base_precip, weights.precip_night_mult, 1000)
    ELSE base_precip

\* the time multipliers of precipitation and the final clamp
full_precip(weights, base_precip, hour) ==
    LET precip == IF 5 <= hour /\ hour <= 8
                  THEN MulRatio(base_precip, weights.precip_morning_mult, 1000)
                  ELSE IF 15 <= hour /\ hour <= 18
                  THEN MulRatio(base_precip, weights.precip_afternoon_mult, 1000)
                  ELSE IF 21 <= hour \/ hour <= 3
                  THEN MulRatio(base_precip, weights.precip_night_mult, 1000)
                  ELSE base_precip
    IN  Max2(0, precip)

\* humidity = min(100, max(0, vp / factor))
full_humidity(weights, vp) ==
    Min2(100000, Max2(0, RoundDiv(vp * 1000, weights.humidity_vp_to_rh_factor)))

\* cloud = min(100, max(0, cloud_pred + offset))
full_cloud(weights, cloud_pred) ==
    Min2(100000, Max2(0, cloud_pred + weights.cloud_baseline_offset))

\* wind = max(0, (wind_proxy - 330) * scale)
full_wind(weights, wind_proxy) ==
    Max2(0, MulRatio(wind_proxy - 330000, weights.wind_proxy_scale, 1000))

\* the test with the 60th day refused as well
no_modis_data_from_60(diff) == \A i \in 1..Len(diff) : diff[i] >= 60

\* _MODIS_DF['date_diff'].min() > 60
no_modis_data(diff) == \A i \in 1..Len(diff) : diff[i] > 60

\* the dict predict.py's predict_hourly returns
full_record(date_str, hour, base_temp, feels_like, precip, humidity, cloud, wind) ==
    [date |-> date_str,
     hour |-> hour,
     temperature |-> RoundTo(base_temp, 10),
     feels_like |-> RoundTo(feels_like, 10),
     precipitation |-> RoundTo(precip, 10),
     humidity |-> RoundTo(humidity, 100),
     cloud_cover |-> RoundTo(cloud, 100),
     wind_speed |-> RoundTo(wind, 10)]

\* predict.py's predict_hourly after _load_resources() has returned: the
\* outcome, and _MODIS_DF with its date_diff column overwritten
full_predict_hourly(models, modis_df, weights, date_str, hour, fault) ==
    LET target == to_datetime(date_str)
    IN  IF target.kind = "raise" THEN [result |-> target, MODIS_DF |-> modis_df]
        ELSE
        LET diff == date_diff_of(modis_df.rows, target.val)
            df == [modis_df EXCEPT !.date_diff = diff]
            modis_row == modis_df.rows[idxmin(diff)]
            clear_cov == row_get(modis_row, "MOD11A1_061_Clear_day_cov", 500)
            t == full_infer(models, "temperature", date_str, modis_row, fault)
            p == full_infer(models, "precipitation", date_str, modis_row, FALSE)
            h == full_infer(models, "humidity", date_str, modis_row, FALSE)
            c == full_infer(models, "cloud", date_str, modis_row, FALSE)
            w == full_infer(models, "wind", date_str, modis_row, FALSE)
            out == IF no_modis_data(diff) THEN Raise("ValueError")
                   ELSE IF t.kind = "raise" THEN t
                   ELSE IF p.kind = "raise" THEN p
                   ELSE IF h.kind = "raise" THEN h
                   ELSE IF c.kind = "raise" THEN c
                   ELSE IF w.kind = "raise" THEN w
                   ELSE Ok(full_record(date_str, hour, t.val,
                             t.val + full_time_offset(weights, hour)
                                   + full_cloud_effect(weights, clear_cov, hour),
                             full_precip(weights, p.val, hour),
                             full_humidity(weights, h.val),
                             full_cloud(weights, c.val),
                             full_wind(weights, w.val)))
        IN  [result |-> out, MODIS_DF |-> df]

\* the row predict.py's predict_daily_range appends for a date
full_daily_row(date_str, hourly_predictions) ==
    [date |-> date_str,
     avg_temperature |-> MeanRound(Column(hourly_predictions, "temperature"), 10),
     avg_feels_like |-> MeanRound(Column(hourly_predictions, "feels_like"), 10),
     total_precipitation |-> RoundTo(SeqSum(Column(hourly_predictions, "precipitation")), 10),
     avg_humidity |-> MeanRound(Column(hourly_predictions, "humidity"), 100),
     avg_cloud_cover |-> MeanRound(Column(hourly_predictions, "cloud_cover"), 100),
     avg_wind_speed |-> MeanRound(Column(hourly_predictions, "wind_speed"), 10)]

(***************************************************************************)
(* weather_predictor.py (WeatherPredictor) and                             *)
(* temperature/temperature_prediction_model.py (TemperaturePredictionModel)*)
(***************************************************************************)
\* WeatherPredictor._load_models(): the five pickles, or the first open() error
wp_load_models(files) ==
    IF files.wp_models = Absent THEN Raise("FileNotFoundError")
    ELSE Ok(files.wp_models)

\* WeatherPredictor._load_modis_data(): the frame, or None when reading fails
wp_load_modis_data(files) ==
    IF files.modis = Absent THEN None
    ELSE [rows |-> files.modis, date_diff |-> << >>]

\* WeatherPredictor._get_modis_features(date_str): the closest row, or None
wp_get_modis_features(modis_df, date_str) ==
    IF modis_df = None THEN None
    ELSE modis_df.rows[idxmin(date_diff_of(modis_df.rows, to_datetime(date_str).val))]

\* WeatherPredictor._build_features(date_str, feature_names, modis_features)
wp_build_features(date_str, feature_names, modis_features) ==
    [i \in 1..Len(feature_names) |->
        IF feature_names[i] = "month" THEN date_str[2] * 1000
        ELSE IF feature_names[i] = "day_of_year" THEN dayofyear(date_str) * 1000
        ELSE IF feature_names[i] = "season" THEN (((date_str[2] % 12) + 3) \div 3) * 1000
        ELSE IF modis_features # None THEN row_get(modis_features, feature_names[i], 0)
        ELSE 0]

\* the feature dict of predict_feels_like_temperature
temp_features_dict(date_str, lst_day, lst_night, cloud_cover_day, cloud_cover_night) ==
    [MOD09GA_061_sur_refl_b01_1 |-> 150,
     MOD09GA_061_sur_refl_b02_1 |-> 200,
     MOD09GA_061_sur_refl_b03_1 |-> 100,
     MOD09GA_061_sur_refl_b04_1 |-> 150,
     MOD09GA_061_sur_refl_b05_1 |-> 180,
     MOD09GA_061_sur_refl_b06_1 |-> 120,
     MOD09GA_061_sur_refl_b07_1 |-> 80,
     MOD09GA_061_SolarAzimuth_1 |-> 180000,
     MOD09GA_061_SolarZenith_1 |-> 45000,
     MOD11A1_061_LST_Day_1km |-> lst_day,
     MOD11A1_061_LST_Night_1km |-> lst_night,
     MOD11A1_061_Emis_31 |-> 985,
     MOD11A1_061_Emis_32 |-> 985,
     MOD11A1_061_Clear_day_cov |-> cloud_cover_day,
     MOD11A1_061_Clear_night_cov |-> cloud_cover_night,
     month |-> date_str[2] * 1000,
     day_of_year |-> dayofyear(date_str) * 1000,
     season |-> season_of(date_str[2]) * 1000]

\* the time period chain of predict_feels_like_temperature
temp_time_period(hour) ==
    IF 6 <= hour /\ hour < 12 THEN "morning"
    ELSE IF 12 <= hour /\ hour < 18 THEN "afternoon"
    ELSE IF 18 <= hour /\ hour < 21 THEN "evening"
    ELSE "night"

\* feels_like of predict_feels_like_temperature
temp_feels_like(base_temp, time_period, cloud_cover_day, cloud_cover_night) ==
    IF time_period = "afternoon"
    THEN base_temp - MulRatio(1000 - cloud_cover_day, 5, 10) + 2500
    ELSE IF time_period = "morning"
    THEN base_temp - MulRatio(1000 - cloud_cover_day, 15, 10) - 1000
    ELSE IF time_period = "evening"
    THEN base_temp + (1000 - cloud_cover_night) + 800
    ELSE base_temp + (1000 - cloud_cover_night) - 1500

\* TemperaturePredictionModel.predict_feels_like_temperature
predict_feels_like_temperature(temp_model, date_str, hour, lst_day, lst_night, cloud_cover_day, cloud_cover_night) ==
    IF temp_model.model = None THEN Raise("ValueError")
    ELSE IF to_datetime(date_str).kind = "raise" THEN to_datetime(date_str)
    ELSE LET features == temp_features_dict(date_str, lst_day, lst_night,
                                            cloud_cover_day, cloud_cover_night)
             names == temp_model.feature_names
         IN  IF \E i \in 1..Len(names) : names[i] \notin DOMAIN features
             THEN Raise("KeyError")
             ELSE LET Xs == transform(temp_model.scaler,
                                      [i \in 1..Len(names) |-> features[names[i]]])
                      base_temp == predict(temp_model.model, Xs.val)
                      time_period == temp_time_period(hour)
                  IN  IF Xs.kind = "raise" THEN Xs
                      ELSE Ok([date |-> date_str,
                               hour |-> hour,
                               time_period |-> time_period,
                               predicted_temperature |-> RoundTo(base_temp, 10),
                               feels_like_temperature |->
                                   RoundTo(temp_feels_like(base_temp, time_period,
                                               cloud_cover_day, cloud_cover_night), 10)])

\* the time-of-day adjustment of precipitation and the clamp in WeatherPredictor.predict
wp_precip(precip_mm, hour) ==
    LET adjusted == IF 5 <= hour /\ hour <= 8 THEN MulRatio(precip_mm, 11, 10)
                    ELSE IF 15 <= hour /\ hour <= 18 THEN MulRatio(precip_mm, 12, 10)
                    ELSE IF 21 <= hour \/ hour <= 3 THEN MulRatio(precip_mm, 9, 10)
                    ELSE precip_mm
    IN  Max2(0, adjusted)

\* "Convert to probability"
wp_precip_prob(precip_mm) ==
    IF precip_mm < 100 THEN 0
    ELSE IF precip_mm < 1000 THEN Min2(30000, precip_mm * 30)
    ELSE IF precip_mm < 2500 THEN 30000 + Min2(40000, MulRatio(precip_mm - 1000, 2667, 100))
    ELSE 70000 + Min2(30000, (precip_mm - 2500) * 6)

\* features -> scaler -> regressor for one of WeatherPredictor's models
wp_infer(art, date_str, modis_features) ==
    LET Xs == transform(art.scaler,
                        wp_build_features(date_str, art.feature_names, modis_features))
    IN  IF Xs.kind = "raise" THEN Xs ELSE Ok(predict(art.model, Xs.val))

\* WeatherPredictor.predict(date_str, hour) on a constructed object
wp_predict(models, modis_df, date_str, hour) ==
    IF modis_df # None /\ to_datetime(date_str).kind = "raise" THEN to_datetime(date_str)
    ELSE
    LET mf == wp_get_modis_features(modis_df, date_str)
        lst_day == IF mf = None THEN 288000
                   ELSE row_get(mf, "MOD11A1_061_LST_Day_1km", 288000)
        lst_night == IF mf = None THEN 280000
                     ELSE row_get(mf, "MOD11A1_061_LST_Night_1km", 280000)
        clear_day == IF mf = None THEN 500
                     ELSE row_get(mf, "MOD11A1_061_Clear_day_cov", 500)
        clear_night == IF mf = None THEN 500
                       ELSE row_get(mf, "MOD11A1_061_Clear_night_cov", 500)
        t == predict_feels_like_temperature(models.temperature, date_str, hour,
                                            lst_day, lst_night, clear_day, clear_night)
        p == wp_infer(models.precipitation, date_str, mf)
        h == wp_infer(models.humidity, date_str, mf)
        c == wp_infer(models.cloud, date_str, mf)
        w == wp_infer(models.wind, date_str, mf)
    IN  IF t.kind = "raise" THEN t
        ELSE IF p.kind = "raise" THEN p
        ELSE IF h.kind = "raise" THEN h
        ELSE IF c.kind = "raise" THEN c
        ELSE IF w.kind = "raise" THEN w
        ELSE Ok([date |-> date_str,
                 hour |-> hour,
                 temperature_c |-> t.val.predicted_temperature,
                 feels_like_c |-> t.val.feels_like_temperature,
                 precipitation_mm |-> RoundTo(wp_precip(p.val, hour), 10),
                 precipitation_probability_pct |->
                     RoundTo(wp_precip_prob(wp_precip(p.val, hour)), 100),
                 humidity_pct |-> RoundTo(Min2(100000, Max2(0, RoundDiv(h.val, 30))), 100),
                 cloud_cover_pct |-> RoundTo(Min2(100000, Max2(0, c.val)), 100),
                 wind_speed_ms |-> RoundTo(Max2(0, RoundDiv(w.val - 330000, 2)), 100)])

(***************************************************************************)
(* Inputs and initial states                                               *)
(***************************************************************************)
\* the most unexpected inference exceptions injected into one range call
MaxFaults == 5

\* date strings given to predict_hourly: winter, summer, fall, and one that
\* does not parse
HourlyDates ==
    {<<2025, 1, 15>>, <<2025, 7, 15>>, <<2025, 10, 4>>, <<2025, 2, 30>>}

\* date strings given to predict_daily_range: two adjacent days across the
\* winter/spring boundary, a day 366 and 367 days later, one that does not parse
RangeDates == {<<2025, 2, 28>>, <<2025, 3, 1>>, <<2026, 3, 2>>, <<2025, 2, 30>>}

Hours == 0..23

NoCall == [none |-> TRUE]

NoRet == [op |-> "none"]

\* the files predict_simple.py reads; it never opens the MODIS tables or the weights
SimpleDisks ==
    \* both temperature files present, every availability of the other four
    [temperature_finetuned : {TempFinetunedArt},
     temperature_full : {TempFullArt},
     precipitation_full : {Absent, PrecipArt},
     humidity_full : {Absent, HumidityArt},
     cloud_full : {Corrupt, CloudArt},
     wind_full : {Absent, WindArt},
     modis : {Absent},
     weights : {Absent},
     wp_models : {Absent}]
    \cup
    \* the other four present; the fine-tuned file absent, both absent, or
    \* the fine-tuned file present but unreadable
    {[temperature_finetuned |-> t[1],
      temperature_full |-> t[2],
      precipitation_full |-> PrecipArt,
      humidity_full |-> HumidityArt,
      cloud_full |-> CloudArt,
      wind_full |-> WindArt,
      modis |-> Absent,
      weights |-> Absent,
      wp_models |-> Absent] :
        t \in {<<Absent, TempFullArt>>, <<Absent, Absent>>, <<Corrupt, TempFullArt>>}}

\* the files predict.py reads; it never opens the fine-tuned temperature model
FullDisks ==
    [temperature_finetuned : {Absent},
     temperature_full : {Absent, TempFullArt},
     precipitation_full : {PrecipArt},
     humidity_full : {Absent, HumidityArt},
     cloud_full : {CloudArt},
     wind_full : {WindArt},
     modis : {Absent, ModisRows},
     weights : {Absent, TunedWeights},
     wp_models : {Absent}]

\* vapor pressure in Pa for WeatherPredictor, which divides by 30: below 0 %,
\* 30 %, 150 % and 50 %
WPHumidityArt == SeasonArtifact(OtherFeatures, <<-300000, 900000, 4500000, 1500000>>)

\* cloud cover in % for WeatherPredictor, which adds no offset: below 0 and
\* above 100 included
WPCloudArt == SeasonArtifact(OtherFeatures, <<-80000, 10000, 180000, 40000>>)

\* the pickles WeatherPredictor.__init__ opens, as one entry
WPModels ==
    [temperature |-> TempFullArt, precipitation |-> PrecipArt,
     humidity |-> WPHumidityArt, cloud |-> WPCloudArt, wind |-> WindArt]

\* the files WeatherPredictor reads
WPDisks ==
    [temperature_finetuned : {Absent},
     temperature_full : {Absent},
     precipitation_full : {Absent},
     humidity_full : {Absent},
     cloud_full : {Absent},
     wind_full : {Absent},
     modis : {Absent, ModisRows},
     weights : {Absent},
     wp_models : {Absent, WPModels}]

Init ==
    /\ impl \in {"simple", "full", "wp"}
    /\ disk \in (IF impl = "simple" THEN SimpleDisks
                 ELSE IF impl = "full" THEN FullDisks ELSE WPDisks)
    /\ MODELS = None
    /\ MODIS_DF = None
    /\ WEIGHTS = None
    /\ pc = "idle"
    /\ call = NoCall
    /\ ret = NoRet
    /\ memo = NoRet
    /\ threads = << >>

\* predict_simple.predict_hourly(date_str, hour), called directly
SimplePredictHourly(date_str, hour) ==
    /\ impl = "simple"
    /\ pc = "idle"
    /\ MODELS' = load_models(MODELS, disk)
    /\ ret' = [op |-> "predict_hourly", date |-> date_str, hour |-> hour,
               result |-> simple_predict_hourly(MODELS', date_str, hour, FALSE)]
    /\ UNCHANGED <<impl, disk, MODIS_DF, WEIGHTS, pc, call>>

\* the outcome record of a finished predict_daily_range call
RangeRet(start_date, end_date, result, attempted, failed) ==
    [op |-> "predict_daily_range", start_date |-> start_date,
     end_date |-> end_date, result |-> result,
     attempted |-> attempted, failed |-> failed]

\* the locals of predict_daily_range when it enters its loop
RangeCall(start_date, end_date, span) ==
    [start_date |-> start_date, end_date |-> end_date,
     start |-> span[1], end |-> span[2], current |-> span[1],
     hi |-> 1, hourly_predictions |-> << >>, results |-> << >>,
     attempted |-> << >>, failed |-> {}, faults |-> 0]

\* predict_simple.predict_daily_range(start_date, end_date) up to its loop
SimpleRangeBegin(start_date, end_date) ==
    /\ impl = "simple"
    /\ pc = "idle"
    /\ MODELS' = load_models(MODELS, disk)
    /\ LET v == range_validate(start_date, end_date)
       IN  IF v.kind = "raise"
           THEN /\ ret' = RangeRet(start_date, end_date, v, << >>, {})
                /\ UNCHANGED <<pc, call>>
           ELSE /\ pc' = "range"
                /\ call' = RangeCall(start_date, end_date, v.val)
                /\ ret' = NoRet
    /\ UNCHANGED <<impl, disk, MODIS_DF, WEIGHTS>>

\* the hour loop with an except block that also forgets the date's earlier samples
next_predictions_drop_on_error(hourly_predictions, r) ==
    IF r.kind = "ok" THEN Append(hourly_predictions, r.val) ELSE << >>

\* the try/except inside the hour loop: a returned dict is appended, any
\* exception is caught and the hour skipped
next_predictions(hourly_predictions, r) ==
    IF r.kind = "ok" THEN Append(hourly_predictions, r.val) ELSE hourly_predictions

\* "if hourly_predictions:" followed by the aggregation of the date
row_or_none(date_str, preds, impl_name) ==
    IF preds = << >> THEN None
    ELSE IF impl_name = "simple" THEN simple_daily_row(date_str, preds)
    ELSE full_daily_row(date_str, preds)

\* the loop body without "current += timedelta(days=1)"
RangeStep_stalled(date_str, hour, r, fault) ==
    LET preds == next_predictions(call.hourly_predictions, r)
        c == [call EXCEPT !.attempted = Append(call.attempted, <<date_str, hour>>)]
    IN  IF call.hi < Len(sample_hours)
        THEN call' = [c EXCEPT !.hi = call.hi + 1, !.hourly_predictions = preds]
        ELSE call' = [c EXCEPT !.hi = 1, !.hourly_predictions = << >>]

\* a sample loop that tries a failed hour again
RangeStep_retry(date_str, hour, r, fault) ==
    LET preds == next_predictions(call.hourly_predictions, r)
        row == row_or_none(date_str, preds, impl)
        c == [call EXCEPT !.attempted = Append(call.attempted, <<date_str, hour>>),
                          !.failed = IF r.kind = "ok" THEN call.failed
                                     ELSE call.failed \cup {<<date_str, hour>>},
                          !.faults = IF fault THEN call.faults + 1 ELSE call.faults]
    IN  IF r.kind = "raise" /\ <<date_str, hour>> \notin call.failed
        THEN call' = c
        ELSE IF call.hi < Len(sample_hours)
        THEN call' = [c EXCEPT !.hi = call.hi + 1,
                               !.hourly_predictions = preds]
        ELSE call' = [c EXCEPT !.hi = 1,
                               !.hourly_predictions = << >>,
                               !.results = IF row # None
                                           THEN Append(call.results, row)
                                           ELSE call.results,
                               !.current = call.current + 1]

\* one pass of "for hour in [0, 6, 12, 18]" given the outcome r of
\* predict_hourly(date_str, hour); after the last hour, the row of the date
\* is appended when there is one, and current += timedelta(days=1)
RangeStep(date_str, hour, r, fault) ==
    LET preds == next_predictions(call.hourly_predictions, r)
        row == row_or_none(date_str, preds, impl)
        c == [call EXCEPT !.attempted = Append(call.attempted, <<date_str, hour>>),
                          !.failed = IF r.kind = "ok" THEN call.failed
                                     ELSE call.failed \cup {<<date_str, hour>>},
                          !.faults = IF fault THEN call.faults + 1 ELSE call.faults]
    IN  IF call.hi < Len(sample_hours)
        THEN call' = [c EXCEPT !.hi = call.hi + 1,
                               !.hourly_predictions = preds]
        ELSE call' = [c EXCEPT !.hi = 1,
                               !.hourly_predictions = << >>,
                               !.results = IF row # None
                                           THEN Append(call.results, row)
                                           ELSE call.results,
                               !.current = call.current + 1]

\* one sampled hour of predict_simple.predict_daily_range
SimpleRangeSample(fault) ==
    /\ impl = "simple"
    /\ pc = "range"
    /\ call.current <= call.end
    /\ fault => call.faults < MaxFaults
    /\ MODELS' = load_models(MODELS, disk)
    /\ LET date_str == strftime(call.current)
           hour == sample_hours[call.hi]
       IN  RangeStep(date_str, hour,
                     simple_predict_hourly(MODELS', date_str, hour, fault), fault)
    /\ UNCHANGED <<impl, disk, MODIS_DF, WEIGHTS, pc, ret>>

\* predict.py's predict_hourly(date_str, hour), called directly
FullPredictHourly(date_str, hour) ==
    /\ impl = "full"
    /\ pc = "idle"
    /\ LET L == load_resources(MODELS, MODIS_DF, WEIGHTS, disk)
           P == full_predict_hourly(L.MODELS, L.MODIS_DF, L.WEIGHTS,
                                    date_str, hour, FALSE)
       IN  /\ MODELS' = L.MODELS
           /\ WEIGHTS' = L.WEIGHTS
           /\ MODIS_DF' = IF L.result.kind = "raise" THEN L.MODIS_DF ELSE P.MODIS_DF
           /\ ret' = [op |-> "predict_hourly", date |-> date_str, hour |-> hour,
                      result |-> IF L.result.kind = "raise" THEN L.result
                                 ELSE P.result]
    /\ UNCHANGED <<impl, disk, pc, call>>

\* predict.py's predict_daily_range(start_date, end_date) up to its loop
FullRangeBegin(start_date, end_date) ==
    /\ impl = "full"
    /\ pc = "idle"
    /\ LET L == load_resources(MODELS, MODIS_DF, WEIGHTS, disk)
           v == IF L.result.kind = "raise" THEN L.result
                ELSE range_validate(start_date, end_date)
       IN  /\ MODELS' = L.MODELS
           /\ MODIS_DF' = L.MODIS_DF
           /\ WEIGHTS' = L.WEIGHTS
           /\ IF v.kind = "raise"
              THEN /\ ret' = RangeRet(start_date, end_date, v, << >>, {})
                   /\ UNCHANGED <<pc, call>>
              ELSE /\ pc' = "range"
                   /\ call' = RangeCall(start_date, end_date, v.val)
                   /\ ret' = NoRet
    /\ UNCHANGED <<impl, disk>>

\* one sampled hour of predict.py's predict_daily_range
FullRangeSample(fault) ==
    /\ impl = "full"
    /\ pc = "range"
    /\ call.current <= call.end
    /\ fault => call.faults < MaxFaults
    /\ LET date_str == strftime(call.current)
           hour == sample_hours[call.hi]
           L == load_resources(MODELS, MODIS_DF, WEIGHTS, disk)
           P == full_predict_hourly(L.MODELS, L.MODIS_DF, L.WEIGHTS,
                                    date_str, hour, fault)
       IN  /\ MODELS' = L.MODELS
           /\ WEIGHTS' = L.WEIGHTS
           /\ MODIS_DF' = IF L.result.kind = "raise" THEN L.MODIS_DF ELSE P.MODIS_DF
           /\ RangeStep(date_str, hour,
                        IF L.result.kind = "raise" THEN L.result ELSE P.result,
                        fault)
    /\ UNCHANGED <<impl, disk, pc, ret>>

\* predictor = WeatherPredictor(): __init__ loads the MODIS frame, then the models
WPConstruct ==
    /\ impl = "wp"
    /\ pc = "idle"
    /\ MODELS = None
    /\ LET m == wp_load_models(disk)
       IN  IF m.kind = "raise"
           THEN /\ ret' = [op |-> "WeatherPredictor", result |-> m]
                /\ UNCHANGED <<MODELS, MODIS_DF>>
           ELSE /\ MODELS' = m.val
                /\ MODIS_DF' = wp_load_modis_data(disk)
                /\ ret' = [op |-> "WeatherPredictor", result |-> Ok(TRUE)]
    /\ UNCHANGED <<impl, disk, WEIGHTS, pc, call>>

\* predictor.predict(date_str, hour, verbose=False)
WPPredict(date_str, hour) ==
    /\ impl = "wp"
    /\ pc = "idle"
    /\ MODELS # None
    /\ ret' = [op |-> "predict", date |-> date_str, hour |-> hour,
               result |-> wp_predict(MODELS, MODIS_DF, date_str, hour)]
    /\ MODIS_DF' = IF MODIS_DF = None \/ to_datetime(date_str).kind = "raise"
                   THEN MODIS_DF
                   ELSE [MODIS_DF EXCEPT !.date_diff =
                            date_diff_of(MODIS_DF.rows, to_datetime(date_str).val)]
    /\ UNCHANGED <<impl, disk, MODELS, WEIGHTS, pc, call>>

\* a loop over the dates that stops before the end date
RangeReturn_exclusive ==
    /\ pc = "range"
    /\ call.current >= call.end
    /\ ret' = RangeRet(call.start_date, call.end_date, Ok(call.results),
                       call.attempted, call.failed)
    /\ pc' = "idle"
    /\ call' = NoCall
    /\ UNCHANGED <<impl, disk, MODELS, MODIS_DF, WEIGHTS>>

\* "while current <= end" is false: return pd.DataFrame(results)
RangeReturn ==
    /\ pc = "range"
    /\ call.current > call.end
    /\ ret' = RangeRet(call.start_date, call.end_date, Ok(call.results),
                       call.attempted, call.failed)
    /\ pc' = "idle"
    /\ call' = NoCall
    /\ UNCHANGED <<impl, disk, MODELS, MODIS_DF, WEIGHTS>>

\* direct calls of predict_hourly
NextHourly ==
    \/ \E d \in HourlyDates, h \in Hours : SimplePredictHourly(d, h) /\ UNCHANGED aux
    \/ \E d \in HourlyDates, h \in Hours : FullPredictHourly(d, h) /\ UNCHANGED aux
    \/ WPConstruct /\ UNCHANGED aux
    \/ \E d \in HourlyDates, h \in Hours : WPPredict(d, h) /\ UNCHANGED aux

\* calls of predict_daily_range
NextRange ==
    \/ \E s \in RangeDates, e \in RangeDates : SimpleRangeBegin(s, e) /\ UNCHANGED aux
    \/ \E f \in BOOLEAN : SimpleRangeSample(f) /\ UNCHANGED aux
    \/ \E s \in RangeDates, e \in RangeDates : FullRangeBegin(s, e) /\ UNCHANGED aux
    \/ \E f \in BOOLEAN : FullRangeSample(f) /\ UNCHANGED aux
    \/ RangeReturn /\ UNCHANGED aux

\* months given to the feature builders: one date in every month
FeatureDates == {<<2025, m, 15>> : m \in 1..12} \cup {<<2025, 2, 30>>}

\* feature lists given to the feature builders
FeatureLists ==
    {<<"month", "season", "MOD11A1_061_Clear_day_cov">>, TempFeatures,
     <<"month", "season", "MOD11A1_061_Clear_day_cov", "MOD21A1D_061_LST_1KM">>}

\* predict_simple._generate_features(date_str, feature_names), called directly
GenerateFeatures(date_str, feature_names) ==
    /\ impl = "simple"
    /\ pc = "idle"
    /\ ret' = [op |-> "_generate_features", date |-> date_str,
               feature_names |-> feature_names,
               result |-> generate_features(date_str, feature_names)]
    /\ UNCHANGED <<impl, disk, MODELS, MODIS_DF, WEIGHTS, pc, call>>

\* predictor._build_features(date_str, feature_names, modis_features) with the
\* row _get_modis_features(date_str) finds
WPBuildFeatures(date_str, feature_names) ==
    /\ impl = "wp"
    /\ pc = "idle"
    /\ MODELS # None
    /\ to_datetime(date_str).kind = "ok"
    /\ ret' = [op |-> "_build_features", date |-> date_str,
               feature_names |-> feature_names,
               result |-> Ok(wp_build_features(date_str, feature_names,
                                wp_get_modis_features(MODIS_DF, date_str)))]
    /\ MODIS_DF' = IF MODIS_DF = None THEN MODIS_DF
                   ELSE [MODIS_DF EXCEPT !.date_diff =
                            date_diff_of(MODIS_DF.rows, to_datetime(date_str).val)]
    /\ UNCHANGED <<impl, disk, MODELS, WEIGHTS, pc, call>>

\* direct calls of the feature builders
NextFeatures ==
    \/ \E d \in FeatureDates, n \in FeatureLists : GenerateFeatures(d, n) /\ UNCHANGED aux
    \/ WPConstruct /\ UNCHANGED aux
    \/ \E d \in FeatureDates, n \in FeatureLists : WPBuildFeatures(d, n) /\ UNCHANGED aux

\* a process that only calls predict_hourly
SpecHourly == Init /\ [][NextHourly]_vars

\* a process that only calls predict_daily_range
SpecRange == Init /\ [][NextRange]_vars

\* a process that only calls the feature builders
SpecFeatures == Init /\ [][NextFeatures]_vars

\* date strings and hours of the repeated predict_hourly calls
RepeatDates == {<<2025, 1, 15>>, <<2025, 7, 15>>}

RepeatHours == {0, 12, 18}

\* date strings of the predict_daily_range calls made between them
BetweenDates == {<<2025, 2, 28>>, <<2025, 3, 1>>}

\* the record of the first finished predict_hourly call; others tells whether
\* a call with other arguments has run since
Remember(date_str, hour) ==
    /\ memo' = IF memo = NoRet
               THEN [date |-> date_str, hour |-> hour, result |-> ret'.result,
                     others |-> FALSE]
               ELSE IF <<date_str, hour>> # <<memo.date, memo.hour>>
               THEN [memo EXCEPT !.others = TRUE]
               ELSE memo
    /\ UNCHANGED threads

\* a predict_daily_range call has started since the recorded call
RememberRange ==
    /\ memo' = IF memo = NoRet THEN memo ELSE [memo EXCEPT !.others = TRUE]
    /\ UNCHANGED threads

\* predict_hourly called repeatedly, with predict_daily_range calls between
NextRepeat ==
    \/ \E d \in RepeatDates, h \in RepeatHours :
          SimplePredictHourly(d, h) /\ Remember(d, h)
    \/ \E d \in RepeatDates, h \in RepeatHours :
          FullPredictHourly(d, h) /\ Remember(d, h)
    \/ \E s \in BetweenDates, e \in BetweenDates :
          SimpleRangeBegin(s, e) /\ RememberRange
    \/ SimpleRangeSample(FALSE) /\ UNCHANGED aux
    \/ \E s \in BetweenDates, e \in BetweenDates :
          FullRangeBegin(s, e) /\ RememberRange
    \/ FullRangeSample(FALSE) /\ UNCHANGED aux
    \/ RangeReturn /\ UNCHANGED aux

\* a process that repeats predict_hourly calls between other calls
SpecRepeat == Init /\ [][NextRepeat]_vars

\* a wind model retrained after the process started
RetrainedWindArt == SeasonArtifact(OtherFeatures, <<331000, 334000, 340000, 336000>>)

\* the files written while the process runs: <<file, new content>>
Replacements ==
    {<<"temperature_finetuned", Absent>>, <<"temperature_finetuned", TempFinetunedArt>>,
     <<"wind_full", WindArt>>, <<"wind_full", RetrainedWindArt>>,
     <<"humidity_full", HumidityArt>>,
     <<"modis", ModisRows>>,
     <<"weights", Absent>>, <<"weights", TunedWeights>>}

\* another process (training, tuning, deployment) writes or removes a file
ReplaceFile(name, content) ==
    /\ impl \in {"simple", "full"}
    /\ content # disk[name]
    /\ disk' = [disk EXCEPT ![name] = content]
    /\ UNCHANGED <<impl, MODELS, MODIS_DF, WEIGHTS, pc, call, ret>>

\* the registry as the first load left it, with the files it was loaded from
RememberLoad ==
    /\ memo' = IF memo = NoRet
               THEN [registry |-> MODELS', files |-> disk,
                     replaced |-> FALSE, later |-> FALSE]
               ELSE [memo EXCEPT !.later = memo.replaced]
    /\ UNCHANGED threads

\* a file was written after the first load
RememberReplaced ==
    /\ memo' = IF memo = NoRet THEN memo ELSE [memo EXCEPT !.replaced = TRUE]
    /\ UNCHANGED threads

\* the date strings and hours of the calls made while files change
RegistryDates == {<<2025, 1, 15>>}

RegistryHours == {6, 12}

\* calls of the public API while the files under MODELS_DIR change
NextRegistry ==
    \/ \E d \in RegistryDates, h \in RegistryHours :
          SimplePredictHourly(d, h) /\ RememberLoad
    \/ \E d \in RegistryDates, h \in RegistryHours :
          FullPredictHourly(d, h) /\ RememberLoad
    \/ \E s \in RegistryDates : SimpleRangeBegin(s, s) /\ RememberLoad
    \/ SimpleRangeSample(FALSE) /\ UNCHANGED aux
    \/ \E s \in RegistryDates : FullRangeBegin(s, s) /\ RememberLoad
    \/ FullRangeSample(FALSE) /\ UNCHANGED aux
    \/ RangeReturn /\ UNCHANGED aux
    \/ \E r \in Replacements : ReplaceFile(r[1], r[2]) /\ RememberReplaced

\* a process whose artifact files are replaced while it serves calls
SpecRegistry == Init /\ [][NextRegistry]_vars

\* start and end dates one day, 365 days and 366 days apart
YearDates == {<<2025, 2, 28>>, <<2025, 3, 1>>, <<2026, 3, 1>>}

\* start and end dates next to a row of the MODIS table
NearDates == {<<2025, 1, 14>>, <<2025, 1, 16>>}

\* the files of a process asked for long spans: every artifact readable, or
\* the fine-tuned temperature file absent or unreadable
YearDisks ==
    {d \in SimpleDisks : d.temperature_full = TempFullArt /\ d.precipitation_full = PrecipArt /\ d.humidity_full = HumidityArt /\ d.cloud_full = CloudArt /\ d.wind_full = WindArt}
    \cup {d \in FullDisks : d.temperature_full = TempFullArt /\ d.humidity_full = HumidityArt /\ d.modis # Absent /\ d.weights = Absent}

InitYear ==
    /\ disk \in YearDisks
    /\ impl = (IF disk.modis = Absent THEN "simple" ELSE "full")
    /\ MODELS = None
    /\ MODIS_DF = None
    /\ WEIGHTS = None
    /\ pc = "idle"
    /\ call = NoCall
    /\ ret = NoRet
    /\ memo = NoRet
    /\ threads = << >>

\* calls of predict_daily_range over spans of up to a year and a day, every
\* sample running without an injected fault
NextYear ==
    \/ \E s \in YearDates, e \in YearDates : SimpleRangeBegin(s, e) /\ UNCHANGED aux
    \/ SimpleRangeSample(FALSE) /\ UNCHANGED aux
    \/ \E s \in NearDates, e \in NearDates : FullRangeBegin(s, e) /\ UNCHANGED aux
    \/ FullRangeSample(FALSE) /\ UNCHANGED aux
    \/ RangeReturn /\ UNCHANGED aux

SpecYear == InitYear /\ [][NextYear]_vars

\* a call of predict_daily_range that is in its loop takes its next step:
\* weak fairness of the steps of the loop, WF_vars(pc = "range" /\ NextYear),
\* written out; a step of the loop is enabled exactly while pc = "range", and
\* every step taken there is one of the loop
RangeProgress == []<>(pc # "range") \/ []<><<pc = "range">>_vars

\* the calls over long spans, each running on once it has started
SpecYearFair == SpecYear /\ RangeProgress

\* hours given to predict_hourly that are not hours of a day, and the last and
\* the first hour of a day
OddHours == {-1, 24, 30, 23, 0}

OddDates == {<<2025, 1, 15>>, <<2025, 7, 15>>}

\* direct calls of predict_hourly with any integer as the hour
NextOddHours ==
    \/ \E d \in OddDates, h \in OddHours : SimplePredictHourly(d, h) /\ UNCHANGED aux
    \/ \E d \in OddDates, h \in OddHours : FullPredictHourly(d, h) /\ UNCHANGED aux

SpecOddHours == Init /\ [][NextOddHours]_vars

\* outputs of a precipitation model in thousandths of a mm: negative, zero,
\* small and large
RawPrecip == {-2000, -1, 0, 1, 400, 3000, 12000}

\* predict.py's weights with the multipliers predict_simple has in its code
SimpleMultipliers ==
    [DefaultWeights EXCEPT !.precip_morning_mult = 1100,
                           !.precip_afternoon_mult = 1300,
                           !.precip_night_mult = 800]

\* the precipitation of both variants for one model output and hour:
\* predict_simple's max(0, ...) followed by its multipliers, and predict.py's
\* multipliers followed by its max(0, ...)
PrecipOrders(raw, hour) ==
    /\ pc = "idle"
    /\ ret' = [op |-> "precipitation", raw |-> raw, hour |-> hour,
               predict_simple |-> simple_precip_adjust(Max2(0, raw), hour),
               predict |-> full_precip(SimpleMultipliers, raw, hour)]
    /\ UNCHANGED <<impl, disk, MODELS, MODIS_DF, WEIGHTS, pc, call>>

NextPrecip ==
    \E raw \in RawPrecip, h \in Hours : PrecipOrders(raw, h) /\ UNCHANGED aux

SpecPrecip == Init /\ [][NextPrecip]_vars

\* a winter date, whose vapor pressure is below zero, and a spring date, whose
\* humidity is in mid range
HumidityDates == {<<2025, 1, 15>>, <<2025, 4, 15>>}

\* predict_simple's predict_hourly at every hour of the two dates
NextHumidity ==
    \E d \in HumidityDates, h \in Hours : SimplePredictHourly(d, h) /\ UNCHANGED aux

SpecHumidity == Init /\ [][NextHumidity]_vars

(***************************************************************************)
(* The hour-to-period chains of function_app.py and simple_server.py.      *)
(***************************************************************************)
\* get_time_period with the evening kept until 22
get_time_period_late_evening(hour) ==
    IF 6 <= hour /\ hour < 12 THEN "morning"
    ELSE IF 12 <= hour /\ hour < 18 THEN "afternoon"
    ELSE IF 18 <= hour /\ hour < 22 THEN "evening"
    ELSE "night"

\* function_app.get_time_period(hour)
get_time_period(hour) ==
    IF 6 <= hour /\ hour < 12 THEN "morning"
    ELSE IF 12 <= hour /\ hour < 18 THEN "afternoon"
    ELSE IF 18 <= hour /\ hour < 21 THEN "evening"
    ELSE "night"

\* simple_server.predict_temperature: "Determine time period"
predict_temperature_time_period(hour) ==
    IF 6 <= hour /\ hour < 12 THEN "morning"
    ELSE IF 12 <= hour /\ hour < 18 THEN "afternoon"
    ELSE IF 18 <= hour /\ hour < 21 THEN "evening"
    ELSE "night"

\* the period each implementation names for the hour
TimePeriods(hour) ==
    /\ pc = "idle"
    /\ ret' = [op |-> "time_period", hour |-> hour,
               predict_simple |-> simple_time_branch(hour).time_period,
               temperature_model |-> temp_time_period(hour),
               function_app |-> get_time_period(hour),
               simple_server |-> predict_temperature_time_period(hour)]
    /\ UNCHANGED <<impl, disk, MODELS, MODIS_DF, WEIGHTS, pc, call>>

\* every hour of the day given to the four implementations, and to
\* predict_simple's predict_hourly
NextPeriod ==
    \/ \E h \in Hours : TimePeriods(h) /\ UNCHANGED aux
    \/ \E d \in RegistryDates, h \in Hours : SimplePredictHourly(d, h) /\ UNCHANGED aux

SpecPeriod == Init /\ [][NextPeriod]_vars

\* dates 60 and 61 days after the first row of the MODIS table, and 60 days
\* before its second row
EdgeDates == {<<2025, 3, 11>>, <<2025, 3, 12>>}

ModisDates == EdgeDates \cup {<<2025, 5, 21>>}

InitModis ==
    /\ impl = "full"
    /\ disk \in FullDisks
    /\ MODELS = None
    /\ MODIS_DF = None
    /\ WEIGHTS = None
    /\ pc = "idle"
    /\ call = NoCall
    /\ ret = NoRet
    /\ memo = NoRet
    /\ threads = << >>

\* calls of predict.py for dates at the edge of the 60-day window
NextModis ==
    \/ \E d \in ModisDates, h \in RegistryHours : FullPredictHourly(d, h) /\ UNCHANGED aux
    \/ \E s \in EdgeDates, e \in EdgeDates : FullRangeBegin(s, e) /\ UNCHANGED aux
    \/ FullRangeSample(FALSE) /\ UNCHANGED aux
    \/ RangeReturn /\ UNCHANGED aux

SpecModis == InitModis /\ [][NextModis]_vars

(***************************************************************************)
(* Concurrent callers of predict_hourly on a cold cache.  Each caller runs *)
(* the statements of _load_models / _load_resources and of the reads of    *)
(* the registry one at a time; the interpreter switches between callers    *)
(* at statement boundaries.                                                *)
(***************************************************************************)
Callers == 1..2

RaceDate == <<2025, 1, 15>>

RaceHour == 12

\* the files of the racing process: every artifact present, or some missing
RaceSimpleDisks ==
    {d \in SimpleDisks : d.temperature_finetuned = TempFinetunedArt /\ d.temperature_full = TempFullArt /\ d.humidity_full = HumidityArt /\ d.cloud_full = CloudArt}

RaceFullDisks == {d \in FullDisks : d.humidity_full = HumidityArt /\ d.weights = Absent}

\* a caller that has not called yet
NewCaller ==
    [pc |-> "idle", i |-> 0, models |-> 0, got |-> EmptyDict,
     skipped |-> FALSE, overlap |-> FALSE, result |-> NoRet]

InitRace ==
    /\ impl \in {"simple", "full"}
    /\ disk \in (IF impl = "simple" THEN RaceSimpleDisks ELSE RaceFullDisks)
    /\ MODELS = None
    /\ MODIS_DF = None
    /\ WEIGHTS = None
    /\ pc = "idle"
    /\ call = NoCall
    /\ ret = NoRet
    /\ memo = NoRet
    /\ threads = [global |-> 0,
                  objs |-> [t \in Callers |-> None],
                  run |-> [t \in Callers |-> NewCaller]]

\* dict[k] = v
Put(dict, k, v) == [n \in DOMAIN dict \cup {k} |-> IF n = k THEN v ELSE dict[n]]

\* between the test of line 46 (52) that found None and the end of the loop
Loading(r) == r.pc \in {"new", "load"}

\* inside predict_hourly
Active(r) == r.pc \notin {"idle", "done"}

\* the callers after caller t moved to r, with _MODELS naming dict g of o; a
\* caller notes whether it has been inside the call while another was loading
Advance(t, g, o, r) ==
    LET run1 == [threads.run EXCEPT ![t] = r]
    IN  [global |-> g, objs |-> o,
         run |-> [u \in Callers |->
                     [run1[u] EXCEPT !.overlap =
                         @ \/ (Active(run1[u]) /\ \E v \in Callers \ {u} : Loading(run1[v]))]]]

\* the value of the global _MODELS
GlobalValue(th) == IF th.global = 0 THEN None ELSE th.objs[th.global]

\* `if _MODELS is None:`
RaceTest(t) ==
    /\ threads.run[t].pc = "idle"
    /\ threads' = Advance(t, threads.global, threads.objs,
                     IF threads.global = 0
                     THEN [threads.run[t] EXCEPT !.pc = "new"]
                     ELSE [threads.run[t] EXCEPT !.pc = "ret", !.skipped = TRUE])
    /\ UNCHANGED <<impl, disk, MODELS, MODIS_DF, WEIGHTS, pc, call, ret, memo>>

\* a loader that keeps its new dict to itself
RaceNew_unpublished(t) ==
    /\ threads.run[t].pc = "new"
    /\ threads' = Advance(t, threads.global, [threads.objs EXCEPT ![t] = EmptyDict],
                     [threads.run[t] EXCEPT !.pc = "load", !.i = 1])
    /\ MODELS' = GlobalValue(threads')
    /\ UNCHANGED <<impl, disk, MODIS_DF, WEIGHTS, pc, call, ret, memo>>

\* `_MODELS = {}`
RaceNew(t) ==
    /\ threads.run[t].pc = "new"
    /\ threads' = Advance(t, t, [threads.objs EXCEPT ![t] = EmptyDict],
                     [threads.run[t] EXCEPT !.pc = "load", !.i = 1])
    /\ MODELS' = GlobalValue(threads')
    /\ UNCHANGED <<impl, disk, MODIS_DF, WEIGHTS, pc, call, ret, memo>>

\* the file predict.py opens for a model name
full_model_path(files, name) ==
    IF name = "temperature" THEN files.temperature_full ELSE model_path(files, name)

\* one pass of the loop over model_names: `_MODELS[name] = pickle.load(f)`
\* writes into the dict that _MODELS names now
RaceLoad(t) ==
    /\ threads.run[t].pc = "load"
    /\ LET r == threads.run[t]
           name == model_names[r.i]
           next == [r EXCEPT !.i = r.i + 1,
                             !.pc = IF r.i = Len(model_names) THEN "ret" ELSE "load"]
           store(v) == Advance(t, threads.global,
                           [threads.objs EXCEPT ![threads.global] = Put(@, name, v)], next)
           loaded == pickle_load(full_model_path(disk, name))
       IN  threads' = IF impl = "simple" THEN store(load_one(disk, name))
                      ELSE IF loaded.kind = "raise"
                      THEN Advance(t, threads.global, threads.objs,
                               [r EXCEPT !.pc = "done", !.result = loaded])
                      ELSE store(loaded.val)
    /\ MODELS' = GlobalValue(threads')
    /\ UNCHANGED <<impl, disk, MODIS_DF, WEIGHTS, pc, call, ret, memo>>

\* predict_simple: `return _MODELS` and `models = _load_models()`
RaceReturnSimple(t) ==
    /\ impl = "simple"
    /\ threads.run[t].pc = "ret"
    /\ threads' = Advance(t, threads.global, threads.objs,
                     [threads.run[t] EXCEPT !.pc = "use", !.i = 1, !.models = threads.global])
    /\ UNCHANGED <<impl, disk, MODELS, MODIS_DF, WEIGHTS, pc, call, ret, memo>>

\* predict.py: the rest of _load_resources, then the date_diff column and
\* the 60-day test of predict_hourly
RaceReturnFull(t) ==
    /\ impl = "full"
    /\ threads.run[t].pc = "ret"
    /\ LET L == load_resources(MODELS, MODIS_DF, WEIGHTS, disk)
           target == to_datetime(RaceDate)
           proceed(diff) ==
               /\ MODIS_DF' = [L.MODIS_DF EXCEPT !.date_diff = diff]
               /\ threads' = Advance(t, threads.global, threads.objs,
                                IF diff[idxmin(diff)] > 60
                                THEN [threads.run[t] EXCEPT !.pc = "done",
                                          !.result = Raise("ValueError")]
                                ELSE [threads.run[t] EXCEPT !.pc = "use", !.i = 1])
       IN  /\ WEIGHTS' = L.WEIGHTS
           /\ IF L.result.kind = "raise"
              THEN /\ MODIS_DF' = L.MODIS_DF
                   /\ threads' = Advance(t, threads.global, threads.objs,
                                    [threads.run[t] EXCEPT !.pc = "done", !.result = L.result])
              ELSE proceed(date_diff_of(L.MODIS_DF.rows, target.val))
    /\ UNCHANGED <<impl, disk, MODELS, pc, call, ret, memo>>

\* what predict_simple computes from the entry it has just read
simple_part(got, name) ==
    IF name = "temperature" THEN simple_temperature(got, RaceDate, FALSE)
    ELSE IF name = "precipitation" THEN simple_precip(got, RaceDate, RaceHour)
    ELSE IF name = "humidity" THEN simple_humidity(got, RaceDate, RaceHour)
    ELSE IF name = "cloud" THEN simple_cloud(got, RaceDate)
    ELSE simple_wind(got, RaceDate, RaceHour)

\* one read of the registry and the prediction made with the entry:
\* models[name] on the caller's reference in predict_simple, _MODELS[name] on
\* the global in predict.py
RaceUse(t) ==
    /\ threads.run[t].pc = "use"
    /\ LET r == threads.run[t]
           name == model_names[r.i]
           dict == IF impl = "simple" THEN threads.objs[r.models] ELSE MODELS
           finish(res) == Advance(t, threads.global, threads.objs,
                              [r EXCEPT !.pc = "done", !.result = res])
           used(got) ==
               LET part == IF impl = "simple" THEN simple_part(got, name)
                           ELSE full_infer(got, name, RaceDate,
                                    MODIS_DF.rows[idxmin(MODIS_DF.date_diff)], FALSE)
               IN  IF part.kind = "raise" THEN finish(part)
                   ELSE IF r.i < Len(model_names)
                   THEN Advance(t, threads.global, threads.objs,
                            [r EXCEPT !.i = r.i + 1, !.got = got])
                   ELSE finish(IF impl = "simple"
                               THEN simple_predict_hourly(got, RaceDate, RaceHour, FALSE)
                               ELSE full_predict_hourly(got, MODIS_DF, WEIGHTS,
                                        RaceDate, RaceHour, FALSE).result)
       IN  threads' = IF name \notin DOMAIN dict THEN finish(Raise("KeyError"))
                      ELSE used(Put(r.got, name, dict[name]))
    /\ UNCHANGED <<impl, disk, MODELS, MODIS_DF, WEIGHTS, pc, call, ret, memo>>

NextRace ==
    \/ \E t \in Callers : RaceTest(t)
    \/ \E t \in Callers : RaceNew(t)
    \/ \E t \in Callers : RaceLoad(t)
    \/ \E t \in Callers : RaceReturnSimple(t)
    \/ \E t \in Callers : RaceReturnFull(t)
    \/ \E t \in Callers : RaceUse(t)

\* callers of predict_hourly that are not serialised
SpecRace == InitRace /\ [][NextRace]_vars

\* date strings of the repeated _generate_features calls
PureDates == {<<2025, 1, 15>>, <<2025, 7, 15>>, <<2025, 2, 30>>}

\* the record of the first _generate_features call; others tells whether
\* another call has run since
RememberFeatures(date_str, feature_names) ==
    /\ memo' = IF memo = NoRet
               THEN [date |-> date_str, feature_names |-> feature_names,
                     result |-> ret'.result, others |-> FALSE]
               ELSE IF <<date_str, feature_names>> # <<memo.date, memo.feature_names>>
               THEN [memo EXCEPT !.others = TRUE]
               ELSE memo
    /\ UNCHANGED threads

\* _generate_features called again and again, with predict_hourly calls, which
\* load the registry, in between
NextPure ==
    \/ \E d \in PureDates, n \in FeatureLists :
          GenerateFeatures(d, n) /\ RememberFeatures(d, n)
    \/ \E d \in RegistryDates, h \in RegistryHours :
          SimplePredictHourly(d, h) /\ RememberRange

SpecPure == Init /\ [][NextPure]_vars

(***************************************************************************)
(* The HTTP wrappers: application.py and api_server.py (FastAPI) and       *)
(* azure_function_wrapper.py.  All three import predict_simple.            *)
(***************************************************************************)
\* the rows predict_simple.predict_daily_range collects from current to end
RECURSIVE simple_range_rows(_, _, _)
simple_range_rows(models, current, end) ==
    IF current > end THEN << >>
    ELSE LET date_str == strftime(current)
             outcomes == [i \in 1..Len(sample_hours) |->
                             simple_predict_hourly(models, date_str, sample_hours[i], FALSE)]
             good == SelectSeq(outcomes, LAMBDA r : r.kind = "ok")
             row == row_or_none(date_str, [i \in 1..Len(good) |-> good[i].val], "simple")
         IN  (IF row = None THEN << >> ELSE <<row>>)
                 \o simple_range_rows(models, current + 1, end)

\* predict_simple.predict_daily_range(start_date, end_date) as one call
simple_predict_daily_range(models, start_date, end_date) ==
    LET v == range_validate(start_date, end_date)
    IN  IF v.kind = "raise" THEN v
        ELSE Ok(simple_range_rows(models, v.val[1], v.val[2]))

\* a handler that lets the exception of the core through
http_response_reraise(wrapper, r) ==
    IF r.kind = "ok" THEN [status |-> 200, json |-> r.val]
    ELSE [status |-> 500, json |-> r]

\* try: return result / except Exception as e: return {"error": str(e)};
\* the Azure wrapper answers an exception with status 500
http_response(wrapper, r) ==
    IF r.kind = "ok" THEN [status |-> 200, json |-> r.val]
    ELSE [status |-> IF wrapper = "azure" THEN 500 ELSE 200,
          json |-> [error |-> r.exc]]

Wrappers == {"fastapi", "azure"}

\* POST /predict
HttpPredict(wrapper, date_str, hour) ==
    /\ impl = "simple"
    /\ pc = "idle"
    /\ MODELS' = load_models(MODELS, disk)
    /\ ret' = [op |-> "/predict", wrapper |-> wrapper, date |-> date_str, hour |-> hour,
               response |-> http_response(wrapper,
                                simple_predict_hourly(MODELS', date_str, hour, FALSE))]
    /\ UNCHANGED <<impl, disk, MODIS_DF, WEIGHTS, pc, call>>

\* POST /predict-range
HttpPredictRange(wrapper, start_date, end_date) ==
    /\ impl = "simple"
    /\ pc = "idle"
    /\ MODELS' = load_models(MODELS, disk)
    /\ ret' = [op |-> "/predict-range", wrapper |-> wrapper,
               start_date |-> start_date, end_date |-> end_date,
               response |-> http_response(wrapper,
                                simple_predict_daily_range(MODELS', start_date, end_date))]
    /\ UNCHANGED <<impl, disk, MODIS_DF, WEIGHTS, pc, call>>

\* the requests sent to the two endpoints
NextHttp ==
    \/ \E w \in Wrappers, d \in HourlyDates, h \in RepeatHours :
          HttpPredict(w, d, h) /\ UNCHANGED aux
    \/ \E w \in Wrappers, s \in RangeDates, e \in RangeDates :
          HttpPredictRange(w, s, e) /\ UNCHANGED aux

SpecHttp == Init /\ [][NextHttp]_vars

\* every call of the sequential process
Next == NextHourly \/ NextRange \/ NextFeatures \/ NextRepeat \/ NextRegistry \/ NextPure \/ NextHttp \/ NextPeriod \/ NextPrecip

Spec == Init /\ [][Next]_vars

(***************************************************************************)
(* Properties                                                              *)
(***************************************************************************)
\* the days from one date string to another
SpanDays(start_date, end_date) == ToOrdinal(end_date) - ToOrdinal(start_date)

\* the arguments predict_daily_range has to reject
RejectedInput(start_date, end_date) ==
    \/ ~IsCalendarDate(start_date)
    \/ ~IsCalendarDate(end_date)
    \/ SpanDays(start_date, end_date) > 365

\* the classes open() and pickle.load() raise
LoadErrorClass == {"FileNotFoundError", "UnpicklingError"}

\* predict.py has all three resources cached
ResourcesLoaded == MODELS # None /\ MODIS_DF # None /\ WEIGHTS # None

\* the loop of predict_daily_range is entered only with accepted arguments
LoopOnlyOnAcceptedInput ==
    pc = "range" => ~RejectedInput(call.start_date, call.end_date)

\* the last finished call is a predict_daily_range with rejected arguments
RejectedRangeCall ==
    /\ ret.op = "predict_daily_range"
    /\ RejectedInput(ret.start_date, ret.end_date)

HourlyWithoutTemperature ==
    /\ impl = "simple"
    /\ ret.op = "predict_hourly"
    /\ MODELS # None
    /\ MODELS.temperature = None

\* C2: predict_hourly fails with a ValueError-class error whenever the registry
\* holds no temperature model, for every date and hour, and returns no forecast.
C2_NoTemperatureIsValueError ==
    HourlyWithoutTemperature =>
        /\ ret.result.kind = "raise"
        /\ ret.result.exc \in ValueErrorClass

\* the file predict_simple loads a non-temperature model from
OtherFile(name) ==
    IF name = "precipitation" THEN disk.precipitation_full
    ELSE IF name = "humidity" THEN disk.humidity_full
    ELSE IF name = "cloud" THEN disk.cloud_full
    ELSE disk.wind_full

OtherNames == {"precipitation", "humidity", "cloud", "wind"}

\* the last finished call is predict_simple.predict_hourly with a temperature
\* model and a date that parses
SimpleHourlyCall ==
    /\ impl = "simple"
    /\ ret.op = "predict_hourly"
    /\ MODELS.temperature # None
    /\ IsCalendarDate(ret.date)

\* C3: in predict_simple, each of precipitation, humidity, cloud and wind whose
\* artifact failed to load is recorded as None, and predict_hourly still
\* succeeds and returns that variable's fixed default (0.0 mm, 50.0 %, 50.0 %,
\* 3.0 m/s) with no time-of-day adjustment, for every availability combination.
C3_DefaultsWhenUnavailable ==
    (impl = "simple" /\ MODELS # None) =>
        /\ \A name \in OtherNames :
              (MODELS[name] = None) <=> (OtherFile(name) \in {Absent, Corrupt})
        /\ SimpleHourlyCall =>
              /\ ret.result.kind = "ok"
              /\ MODELS.precipitation = None =>
                    /\ ret.result.val.precipitation_mm = 0
                    /\ ret.result.val.precipitation_inches = 0
              /\ MODELS.humidity = None => ret.result.val.humidity_percent = 50000
              /\ MODELS.cloud = None => ret.result.val.cloud_cover_percent = 50000
              /\ MODELS.wind = None =>
                    /\ ret.result.val.wind_speed_ms = 3000
                    /\ ret.result.val.wind_speed_mph = 6700

\* an afternoon forecast, where every multiplier applies, made with all four
\* non-temperature artifacts unavailable
C3_Witness ==
    /\ impl = "simple"
    /\ ret.op = "predict_hourly"
    /\ ret.hour = 16
    /\ ret.result.kind = "ok"
    /\ \A name \in OtherNames : MODELS[name] = None
    /\ ret.result.val.wind_speed_ms = 3000
    /\ ret.result.val.humidity_percent = 50000

\* the six numeric outputs of an hourly forecast, in each module's key names
SixOutputs ==
    IF impl = "simple"
    THEN {"temperature_c", "feels_like_c", "precipitation_mm", "humidity_percent",
          "cloud_cover_percent", "wind_speed_ms"}
    ELSE {"temperature", "feels_like", "precipitation", "humidity",
          "cloud_cover", "wind_speed"}

\* C4: every forecast predict_hourly returns has all six numeric outputs
\* populated with a number, whichever non-temperature artifacts are
\* unavailable; a call returns such a complete record or raises.
C4_CompleteOrRaises ==
    (ret.op = "predict_hourly") =>
        \/ /\ ret.result.kind = "raise"
           /\ DOMAIN ret.result = {"kind", "exc"}
        \/ /\ ret.result.kind = "ok"
           /\ SixOutputs \subseteq DOMAIN ret.result.val
           /\ \A k \in SixOutputs : ret.result.val[k] \in Int

\* a forecast made with the temperature model only
C4_Witness ==
    /\ impl = "simple"
    /\ ret.op = "predict_hourly"
    /\ ret.result.kind = "ok"
    /\ \A name \in OtherNames : MODELS[name] = None
    /\ SixOutputs \subseteq DOMAIN ret.result.val

\* humidity, cloud cover, wind speed and precipitation of a returned forecast
Outputs4(val) ==
    IF impl = "simple"
    THEN <<val.humidity_percent, val.cloud_cover_percent, val.wind_speed_ms,
           val.precipitation_mm>>
    ELSE IF impl = "full"
    THEN <<val.humidity, val.cloud_cover, val.wind_speed, val.precipitation>>
    ELSE <<val.humidity_pct, val.cloud_cover_pct, val.wind_speed_ms,
           val.precipitation_mm>>

\* C5: for any raw model outputs and any hour, a returned forecast has humidity
\* and cloud cover in [0, 100] and wind speed and precipitation >= 0, after the
\* time-of-day multipliers, in predict_simple, predict.py and WeatherPredictor.
C5_Clamped ==
    (ret.op \in {"predict_hourly", "predict"} /\ ret.result.kind = "ok") =>
        LET o == Outputs4(ret.result.val)
        IN  /\ 0 <= o[1] /\ o[1] <= 100000
            /\ 0 <= o[2] /\ o[2] <= 100000
            /\ 0 <= o[3]
            /\ 0 <= o[4]

\* a summer morning in predict_simple: the vapor pressure is far above the
\* range and the morning multiplier applies, and humidity is exactly 100 %
C5_Witness ==
    /\ impl = "simple"
    /\ ret.op = "predict_hourly"
    /\ ret.date = <<2025, 7, 15>>
    /\ ret.hour = 6
    /\ ret.result.kind = "ok"
    /\ MODELS.humidity # None
    /\ ret.result.val.humidity_percent = 100000

\* the four time-of-day buckets as sets of hours
Buckets ==
    [morning |-> 6..11, afternoon |-> 12..17, evening |-> 18..20,
     night |-> (21..23) \cup (0..5)]

\* the buckets an hour falls in
BucketsOf(hour) == {b \in DOMAIN Buckets : hour \in Buckets[b]}

\* the feels-like offset of each bucket in predict_simple, degrees F
BucketOffsetF ==
    [morning |-> -1000, afternoon |-> 3000, evening |-> 1000, night |-> -2000]

\* the weight predict.py adds for each bucket
BucketWeight(weights) ==
    [morning |-> weights.temp_morning_offset,
     afternoon |-> weights.temp_afternoon_offset,
     evening |-> weights.temp_evening_offset,
     night |-> weights.temp_night_offset]

\* the MODIS row the last predict.py call selected
SelectedRow == MODIS_DF.rows[idxmin(MODIS_DF.date_diff)]

\* C6: every hour 0..23 falls in exactly one of morning [6,12), afternoon
\* [12,18), evening [18,21) and night [21,24) + [0,6); hour 11 selects morning,
\* 12 afternoon, 18 evening and 21 night; and the forecast adds exactly the
\* offset of that one bucket to the base temperature.
C6_BucketsPartitionHours ==
    /\ \A h \in Hours : Cardinality(BucketsOf(h)) = 1
    /\ \A h \in Hours : simple_time_branch(h).time_period \in BucketsOf(h)
    /\ simple_time_branch(11).time_period = "morning"
    /\ simple_time_branch(12).time_period = "afternoon"
    /\ simple_time_branch(18).time_period = "evening"
    /\ simple_time_branch(21).time_period = "night"
    /\ (ret.op = "predict_hourly" /\ ret.result.kind = "ok") =>
          LET val == ret.result.val
          IN  \A b \in BucketsOf(ret.hour) :
                 IF impl = "simple"
                 THEN /\ val.time_period = b
                      /\ val.feels_like_f - val.temperature_f = BucketOffsetF[b]
                 ELSE LET t == full_infer(MODELS, "temperature", ret.date,
                                          SelectedRow, FALSE)
                          clear_cov == row_get(SelectedRow,
                                               "MOD11A1_061_Clear_day_cov", 500)
                      IN  /\ val.temperature = RoundTo(t.val, 10)
                          /\ val.feels_like =
                                RoundTo(t.val + BucketWeight(WEIGHTS)[b]
                                        + full_cloud_effect(WEIGHTS, clear_cov,
                                                            ret.hour), 10)

\* a forecast for hour 12, the first hour of the afternoon
C6_Witness ==
    /\ impl = "simple"
    /\ ret.op = "predict_hourly"
    /\ ret.hour = 12
    /\ ret.result.kind = "ok"
    /\ ret.result.val.time_period = "afternoon"
    /\ ret.result.val.feels_like_f - ret.result.val.temperature_f = 3000

\* the season of a month: Winter 1, Spring 2, Summer 3, Fall 4
ExpectedSeason(month) ==
    IF month \in {12, 1, 2} THEN 1
    ELSE IF month \in 3..5 THEN 2
    ELSE IF month \in 6..8 THEN 3
    ELSE 4

\* clear_cov of the four seasonal branches of _generate_features
BranchClearCov == <<400, 600, 700, 500>>

\* C7: for every month 1..12 the season code ((month % 12) + 3) // 3 is one of
\* 1..4, with Dec-Feb -> 1, Mar-May -> 2, Jun-Aug -> 3, Sep-Nov -> 4, and the
\* feature builders emit the season, and the values of that season's branch.
C7_SeasonOfMonth ==
    /\ \A m \in 1..12 : season_of(m) \in 1..4 /\ season_of(m) = ExpectedSeason(m)
    /\ (/\ ret.op \in {"_generate_features", "_build_features"}
        /\ ret.result.kind = "ok") =>
          LET season == ExpectedSeason(ret.date[2])
              at(name) == ret.result.val[IndexOf(ret.feature_names, name)]
          IN  /\ at("season") = season * 1000
              /\ ret.op = "_generate_features" =>
                    at("MOD11A1_061_Clear_day_cov") = BranchClearCov[season]

\* the features of a December date carry the Winter code and Winter values
C7_Witness ==
    /\ ret.op = "_generate_features"
    /\ ret.date[2] = 12
    /\ ret.result.kind = "ok"
    /\ ret.result.val[IndexOf(ret.feature_names, "season")] = 1000
    /\ ret.result.val[IndexOf(ret.feature_names, "MOD11A1_061_Clear_day_cov")] = 400

\* predict_hourly(date_str, hour) in the module under test, with its caches
\* as they are now and no unexpected exception
Prediction(date_str, hour) ==
    IF impl = "simple"
    THEN simple_predict_hourly(MODELS, date_str, hour, FALSE)
    ELSE full_predict_hourly(MODELS, MODIS_DF, WEIGHTS, date_str, hour, FALSE).result

\* the sampled hours of a date whose prediction succeeded in the last call
GoodHours(date_str) ==
    SelectSeq(sample_hours, LAMBDA h : <<date_str, h>> \notin ret.failed)

\* the successful hourly samples of a date in the last call
SamplesOf(date_str) ==
    [i \in 1..Len(GoodHours(date_str)) |->
        Prediction(date_str, GoodHours(date_str)[i]).val]

\* the dates of the span of the last call, in order
SpanDates ==
    [i \in 1..(SpanDays(ret.start_date, ret.end_date) + 1) |->
        strftime(ToOrdinal(ret.start_date) + i - 1)]

\* the last call is a predict_daily_range that returned its frame
RangeReturned ==
    /\ ret.op = "predict_daily_range"
    /\ ret.result.kind = "ok"

\* <<daily column, hourly key, rounding step>> of the averaged columns
MeanColumns ==
    IF impl = "simple"
    THEN {<<"avg_temperature_f", "temperature_f", 100>>,
          <<"avg_feels_like_f", "feels_like_f", 100>>,
          <<"avg_temperature_c", "temperature_c", 100>>,
          <<"avg_feels_like_c", "feels_like_c", 100>>,
          <<"avg_humidity_percent", "humidity_percent", 100>>,
          <<"avg_cloud_cover_percent", "cloud_cover_percent", 100>>,
          <<"avg_wind_speed_mph", "wind_speed_mph", 100>>,
          <<"avg_wind_speed_ms", "wind_speed_ms", 100>>}
    ELSE {<<"avg_temperature", "temperature", 10>>,
          <<"avg_feels_like", "feels_like", 10>>,
          <<"avg_humidity", "humidity", 100>>,
          <<"avg_cloud_cover", "cloud_cover", 100>>,
          <<"avg_wind_speed", "wind_speed", 10>>}

\* <<daily column, hourly key>> of the summed columns
SumColumns ==
    IF impl = "simple"
    THEN {<<"total_precipitation_mm", "precipitation_mm">>,
          <<"total_precipitation_inches", "precipitation_inches">>}
    ELSE {<<"total_precipitation", "precipitation">>}

\* the hourly key of the temperature whose min and max are tracked
TemperatureKey == IF impl = "simple" THEN "temperature_f" ELSE "temperature"

\* avg is the arithmetic mean of s rounded to a multiple of step
IsRoundedMean(avg, s, step) ==
    /\ avg % step = 0
    /\ 2 * Abs(avg * Len(s) - SeqSum(s)) <= Len(s) * step

\* the mean and sum columns of a daily row over its samples
MeansAndSums(row, samples) ==
    /\ \A c \in MeanColumns :
          /\ c[1] \in DOMAIN row
          /\ IsRoundedMean(row[c[1]], Column(samples, c[2]), c[3])
    /\ \A c \in SumColumns :
          /\ c[1] \in DOMAIN row
          /\ row[c[1]] = SeqSum(Column(samples, c[2]))

\* the row has two more columns, holding the least and the greatest sampled
\* temperature, and its mean temperature lies between them
TracksMinMax(row, samples) ==
    LET temps == Column(samples, TemperatureKey)
        extra == DOMAIN row \ ({c[1] : c \in MeanColumns}
                                \cup {c[1] : c \in SumColumns} \cup {"date"})
    IN  \E lo, hi \in extra :
           /\ lo # hi
           /\ \E i \in 1..Len(temps) : RoundTo(temps[i], 100) = row[lo]
           /\ \E i \in 1..Len(temps) : RoundTo(temps[i], 100) = row[hi]
           /\ \A i \in 1..Len(temps) : row[lo] <= temps[i] /\ temps[i] <= row[hi]
           /\ \A c \in MeanColumns :
                 c[2] = TemperatureKey =>
                    row[lo] <= row[c[1]] /\ row[c[1]] <= row[hi]

\* four mock hourly forecasts of one date with temperatures 10, 20, 15, 25
MockTemperatures == <<10000, 20000, 15000, 25000>>

MockForecasts ==
    [i \in 1..4 |->
        [temperature_f |-> MockTemperatures[i], feels_like_f |-> MockTemperatures[i],
         temperature_c |-> 0, feels_like_c |-> 0, precipitation_mm |-> 0,
         precipitation_inches |-> 0, humidity_percent |-> 50000,
         cloud_cover_percent |-> 50000, wind_speed_mph |-> 6700,
         wind_speed_ms |-> 3000]]

\* temperatures [10, 20, 15, 25] give mean 17.5, min 10 and max 25
MockExample ==
    LET row == simple_daily_row(<<2025, 3, 1>>, MockForecasts)
    IN  /\ row.avg_temperature_f = 17500
        /\ row.min_temp_f = 10000
        /\ row.max_temp_f = 25000

\* C8 as stated: each daily row is computed from that date's successful hourly
\* samples as the mean of temperature, feels-like, humidity, cloud cover and
\* wind speed, the sum of precipitation, and the min and max of the sampled
\* temperatures, with min <= mean <= max; [10, 20, 15, 25] gives 17.5, 10, 25.
C8_MeanSumMinMax ==
    /\ MockExample
    /\ RangeReturned =>
          \A i \in 1..Len(ret.result.val) :
             LET row == ret.result.val[i]
             IN  /\ MeansAndSums(row, SamplesOf(row.date))
                 /\ TracksMinMax(row, SamplesOf(row.date))

\* C8 amended: each daily row holds the mean of temperature, feels-like,
\* humidity, cloud cover and wind speed and the sum of precipitation over the
\* date's successful samples; predict_simple's row also holds the min and max
\* of the sampled temperatures, with min <= mean <= max, while predict.py's
\* row holds no min or max; [10, 20, 15, 25] gives 17.5, 10, 25.
C8_MeanSumAndSimpleMinMax ==
    /\ MockExample
    /\ RangeReturned =>
          \A i \in 1..Len(ret.result.val) :
             LET row == ret.result.val[i]
             IN  /\ MeansAndSums(row, SamplesOf(row.date))
                 /\ IF impl = "simple"
                    THEN TracksMinMax(row, SamplesOf(row.date))
                    ELSE DOMAIN row = {c[1] : c \in MeanColumns}
                                      \cup {c[1] : c \in SumColumns} \cup {"date"}

\* a day of four successful samples with rain, so that sum and mean differ
C8_Witness ==
    /\ impl = "simple"
    /\ RangeReturned
    /\ ret.failed = {}
    /\ \E i \in 1..Len(ret.result.val) :
          /\ ret.result.val[i].total_precipitation_mm > 0
          /\ ret.result.val[i].min_temp_f <= ret.result.val[i].avg_temperature_f
          /\ Len(SamplesOf(ret.result.val[i].date)) = 4

\* the dates of the span that have at least one successful sample
DatesWithSamples == SelectSeq(SpanDates, LAMBDA d : GoodHours(d) # << >>)

\* every sampled hour of the span, in the order the loops visit them
SpanSamples ==
    [i \in 1..(Len(SpanDates) * Len(sample_hours)) |->
        <<SpanDates[((i - 1) \div Len(sample_hours)) + 1],
          sample_hours[((i - 1) % Len(sample_hours)) + 1]>>]

\* the last call is a finished predict_daily_range whose arguments pass the
\* validation and whose resources loaded
AcceptedRangeCall ==
    /\ ret.op = "predict_daily_range"
    /\ ~RejectedInput(ret.start_date, ret.end_date)
    /\ impl = "full" => ResourcesLoaded

\* C9: in predict_daily_range a sampled hour whose prediction raises is
\* skipped and the date's row is aggregated over the remaining successful
\* samples only; a date whose four samples all fail has no row and no error
\* reaches the caller; a failure on one date leaves the rows of other dates
\* unchanged.
C9_FailedHoursSkipped ==
    AcceptedRangeCall =>
        /\ ret.result.kind = "ok"
        /\ ret.attempted = SpanSamples
        /\ \A i \in 1..Len(SpanSamples) :
              Prediction(SpanSamples[i][1], SpanSamples[i][2]).kind = "raise"
                  => SpanSamples[i] \in ret.failed
        /\ Len(ret.result.val) = Len(DatesWithSamples)
        /\ \A i \in 1..Len(DatesWithSamples) :
              LET d == DatesWithSamples[i]
              IN  /\ Len(SamplesOf(d)) \in 1..Len(sample_hours)
                  /\ ret.result.val[i] = row_or_none(d, SamplesOf(d), impl)

\* two dates: every sample of the first failed and it has no row; one sample
\* of the second failed and its row is over the other three
C9_Witness ==
    /\ impl = "simple"
    /\ RangeReturned
    /\ ret.start_date = <<2025, 2, 28>>
    /\ ret.end_date = <<2025, 3, 1>>
    /\ MODELS.temperature # None
    /\ GoodHours(<<2025, 2, 28>>) = << >>
    /\ Len(GoodHours(<<2025, 3, 1>>)) = 3
    /\ Len(ret.result.val) = 1
    /\ ret.result.val[1].date = <<2025, 3, 1>>

\* no temperature artifact could be loaded
TemperatureUnavailable ==
    IF impl = "simple"
    THEN MODELS # None /\ MODELS.temperature = None
    ELSE disk.temperature_full \in {Absent, Corrupt}

\* C10: when the temperature artifact is unavailable, predict_daily_range over
\* a valid span fails with an error instead of returning a result.
C10_NoTemperatureFailsRange ==
    (/\ ret.op = "predict_daily_range"
     /\ ~RejectedInput(ret.start_date, ret.end_date)
     /\ SpanDays(ret.start_date, ret.end_date) >= 0
     /\ TemperatureUnavailable)
        => ret.result.kind = "raise"

\* the last finished call is a predict_hourly with the arguments of the
\* recorded first call
RepeatedCall ==
    /\ ret.op = "predict_hourly"
    /\ memo # NoRet
    /\ ret.date = memo.date
    /\ ret.hour = memo.hour

\* C11: with the same artifacts in the registry, two predict_hourly calls with
\* the same (date, hour) return identical records, whatever predict_hourly or
\* predict_daily_range calls with other arguments run before or between them.
C11_SameArgumentsSameRecord ==
    (RepeatedCall /\ (ret.result.kind = "ok" \/ memo.result.kind = "ok"))
        => ret.result = memo.result

\* predict.py returns a record for arguments it has served before, after calls
\* with other dates have overwritten the date_diff column of the cached table
C11_Witness ==
    /\ impl = "full"
    /\ RepeatedCall
    /\ memo.others
    /\ ret.result.kind = "ok"
    /\ ret.date = <<2025, 1, 15>>
    /\ MODIS_DF.date_diff = date_diff_of(MODIS_DF.rows, ToOrdinal(ret.date))

\* the names of the five artifacts of the registry
FiveNames == {"temperature", "precipitation", "humidity", "cloud", "wind"}

\* a step of a call of the API: the files are as they were
CallStep == disk' = disk /\ (pc' # pc \/ ret' # ret)

\* the step finished the loading of predict.py without an exception
LoadCompleted ==
    \/ pc' = "range"
    \/ ret'.op = "predict_hourly" /\ ret'.result.kind = "ok"

\* C12: with sequential callers the registry is loaded once per process: the
\* first call of predict_hourly or predict_daily_range sets the mapping (all
\* five names in predict_simple, and in predict.py when the load finishes), and
\* from then on no step changes the mapping, whatever happens to the files.
C12_LoadedOnceThenReadOnly ==
    [][/\ MODELS # None => MODELS' = MODELS
       /\ (MODELS = None /\ CallStep) =>
             /\ MODELS' # None
             /\ (impl = "simple" \/ LoadCompleted) => DOMAIN MODELS' = FiveNames]_vars

\* predict.py: the first call failed on the missing MODIS table, a later call
\* made after the wind model was retrained succeeded with the first mapping
C12_Witness ==
    /\ impl = "full"
    /\ memo # NoRet
    /\ memo.later
    /\ memo.files.modis = Absent
    /\ ret.op = "predict_hourly"
    /\ ret.result.kind = "ok"
    /\ disk.wind_full = RetrainedWindArt
    /\ MODELS.wind = WindArt

\* the file that _load_models opened for a name at the first load
FileAtFirstLoad(name) ==
    IF name = "temperature"
    THEN (IF memo.files.temperature_finetuned # Absent
          THEN memo.files.temperature_finetuned ELSE memo.files.temperature_full)
    ELSE IF name = "precipitation" THEN memo.files.precipitation_full
    ELSE IF name = "humidity" THEN memo.files.humidity_full
    ELSE IF name = "cloud" THEN memo.files.cloud_full
    ELSE memo.files.wind_full

\* what the first load recorded for a name: that version, or None
EntryAtFirstLoad(name) ==
    IF FileAtFirstLoad(name) \in {Absent, Corrupt} THEN None ELSE FileAtFirstLoad(name)

\* C19: predict_simple's registry is never invalidated: after the first load,
\* every entry is the version of the file read then, or None if it could not be
\* read then, whatever the files are now, and every finished predict_hourly
\* call returns what that first mapping predicts.
C19_NoInvalidation ==
    (impl = "simple" /\ memo # NoRet) =>
        /\ \A name \in FiveNames : MODELS[name] = EntryAtFirstLoad(name)
        /\ ret.op = "predict_hourly" =>
              ret.result = simple_predict_hourly(memo.registry, ret.date, ret.hour, FALSE)

\* the wind artifact was missing at the first load and written afterwards; a
\* later call still returns the default wind speed
C19_Witness ==
    /\ impl = "simple"
    /\ memo # NoRet
    /\ memo.later
    /\ memo.files.wind_full = Absent
    /\ disk.wind_full = RetrainedWindArt
    /\ ret.op = "predict_hourly"
    /\ ret.result.kind = "ok"
    /\ ret.result.val.wind_speed_ms = 3000

\* what predict_hourly(RaceDate, RaceHour) returns to the only caller of a
\* process with these files
SequentialResult ==
    IF impl = "simple"
    THEN simple_predict_hourly(load_models(None, disk), RaceDate, RaceHour, FALSE)
    ELSE LET L == load_resources(None, None, None, disk)
         IN  IF L.result.kind = "raise" THEN L.result
             ELSE full_predict_hourly(L.MODELS, L.MODIS_DF, L.WEIGHTS,
                                      RaceDate, RaceHour, FALSE).result

\* predict.py can open and unpickle its five model files
ModelsLoadable ==
    \A name \in FiveNames : pickle_load(full_model_path(disk, name)).kind = "ok"

\* C13: with callers interleaving on a cold cache, _MODELS is already a dict
\* (not None) while a caller is still in the loading loop, so a caller that
\* arrives then skips the load; only a caller whose call never overlapped
\* another caller's load is sure to get the record a lone caller gets.
C13_SafeOnlyWithoutOverlap ==
    \A t \in Callers :
        /\ threads.run[t].pc = "load" => MODELS # None
        /\ (threads.run[t].skipped /\ ~threads.run[t].overlap) =>
              DOMAIN MODELS = FiveNames \/ (impl = "full" /\ ~ModelsLoadable)
        /\ (/\ threads.run[t].pc = "done"
            /\ ~threads.run[t].overlap
            /\ impl = "simple" \/ ModelsLoadable) =>
              threads.run[t].result = SequentialResult

\* predict_simple: the second caller found _MODELS set, skipped the load and
\* failed with KeyError on a registry without the entry it read, while the
\* first caller, still loading then, finished its load and got its record
C13_Witness ==
    /\ impl = "simple"
    /\ threads.run[2].pc = "done"
    /\ threads.run[2].skipped
    /\ threads.run[2].result = Raise("KeyError")
    /\ threads.objs[2] = None
    /\ threads.run[1].pc = "done"
    /\ threads.run[1].result.kind = "ok"
    /\ DOMAIN MODELS = FiveNames

\* the rows a finished predict_daily_range call returned
ReturnedRows == ret.result.val

\* C14: predict_daily_range takes the span as inclusive and accepts every span
\* of 0 to 365 days: the call returns a frame, and when no hourly prediction
\* failed the frame has (end - start in days) + 1 rows, the i-th row being
\* that of the i-th calendar date from start; 365 days give 366 rows and
\* start = end gives one row.
C14_InclusiveSpan ==
    (AcceptedRangeCall /\ SpanDays(ret.start_date, ret.end_date) >= 0) =>
        /\ ret.result.kind = "ok"
        /\ ret.failed = {} =>
              /\ Len(ReturnedRows) = SpanDays(ret.start_date, ret.end_date) + 1
              /\ \A i \in 1..Len(ReturnedRows) :
                    /\ IsCalendarDate(ReturnedRows[i].date)
                    /\ ToOrdinal(ReturnedRows[i].date) = ToOrdinal(ret.start_date) + i - 1

\* a span of exactly 365 days returned 366 rows, the last one for the end date
C14_Witness ==
    /\ impl = "simple"
    /\ RangeReturned
    /\ SpanDays(ret.start_date, ret.end_date) = 365
    /\ ret.failed = {}
    /\ Len(ReturnedRows) = 366
    /\ ReturnedRows[366].date = ret.end_date

\* the hours of a day the aggregator is specified to sample, in order
FourHours == <<0, 6, 12, 18>>

\* every (date, hour) of an inclusive span, dates ascending and the four
\* hours within each date
SampleOrder(start_date, end_date) ==
    [i \in 1..(4 * (SpanDays(start_date, end_date) + 1)) |->
        <<strftime(ToOrdinal(start_date) + ((i - 1) \div 4)), FourHours[((i - 1) % 4) + 1]>>]

\* s is the beginning of t
IsPrefix(s, t) == Len(s) <= Len(t) /\ \A i \in 1..Len(s) : s[i] = t[i]

\* C15: predict_daily_range attempts the hours 0, 6, 12, 18 of every date of
\* the span one after the other, dates ascending: at every point of the loop
\* the attempts made are a beginning of that order, and the returned call has
\* attempted exactly that order, each pair once, failed samples included.
C15_FixedSampleOrder ==
    /\ pc = "range" =>
          IsPrefix(call.attempted, SampleOrder(call.start_date, call.end_date))
    /\ RangeReturned =>
          /\ ret.attempted = SampleOrder(ret.start_date, ret.end_date)
          /\ ret.failed \subseteq {ret.attempted[i] : i \in 1..Len(ret.attempted)}

\* a call over two dates returned after eight attempts, some of them failed
C15_Witness ==
    /\ RangeReturned
    /\ SpanDays(ret.start_date, ret.end_date) = 1
    /\ Len(ret.attempted) = 8
    /\ ret.failed # {}
    /\ Len(ret.result.val) = 2

\* the three hour windows of the precipitation correction
PrecipWindows ==
    [morning |-> 5..8, afternoon |-> 15..18, night |-> (21..23) \cup (0..3)]

\* the windows an hour falls in
WindowsOf(hour) == {w \in DOMAIN PrecipWindows : hour \in PrecipWindows[w]}

\* the multiplier of each window, in thousandths
PrecipMultiplier ==
    IF impl = "simple" THEN [morning |-> 1100, afternoon |-> 1300, night |-> 800]
    ELSE IF impl = "full"
    THEN [morning |-> WEIGHTS.precip_morning_mult,
          afternoon |-> WEIGHTS.precip_afternoon_mult,
          night |-> WEIGHTS.precip_night_mult]
    ELSE [morning |-> 1100, afternoon |-> 1200, night |-> 900]

\* the raw output of the precipitation model for the date of the last call
BasePrecip ==
    IF impl = "simple" THEN infer(MODELS.precipitation, ret.date, FALSE).val
    ELSE IF impl = "full"
    THEN full_infer(MODELS, "precipitation", ret.date, SelectedRow, FALSE).val
    ELSE wp_infer(MODELS.precipitation, ret.date,
                  wp_get_modis_features(MODIS_DF, ret.date)).val

\* the last call returned a forecast whose precipitation came from a model
PrecipForecast ==
    /\ ret.op \in {"predict_hourly", "predict"}
    /\ ret.result.kind = "ok"
    /\ impl = "simple" => MODELS.precipitation # None

\* C16: the precipitation windows 5..8, 15..18 and (>= 21 or <= 3) are
\* pairwise disjoint, so every hour 0..23 is in at most one; hours 4, 9..14,
\* 19 and 20 are in none; and the returned precipitation is the model output
\* times the multiplier of the hour's window, or times nothing outside the
\* windows, clamped at 0, in predict_simple, predict.py and WeatherPredictor.
C16_DisjointPrecipWindows ==
    /\ \A h \in Hours : Cardinality(WindowsOf(h)) <= 1
    /\ {h \in Hours : WindowsOf(h) = {}} = {4, 19, 20} \cup (9..14)
    /\ PrecipForecast =>
          LET W == WindowsOf(ret.hour)
              scaled == IF W = {} THEN BasePrecip
                        ELSE MulRatio(BasePrecip, PrecipMultiplier[CHOOSE w \in W : TRUE], 1000)
          IN  /\ Outputs4(ret.result.val)[4] = RoundTo(Max2(0, scaled), 10)
              /\ Outputs4(ret.result.val)[4] >= 0

\* predict_simple at hour 4, between the night and the morning window: the
\* positive model output is returned as it is
C16_Witness ==
    /\ impl = "simple"
    /\ PrecipForecast
    /\ ret.hour = 4
    /\ BasePrecip > 0
    /\ ret.result.val.precipitation_mm = RoundTo(BasePrecip, 10)

\* the factor of the cloud term for an hour: the day factor in the morning
\* and afternoon buckets, the night factor in the evening and night buckets
CloudFactor(weights, hour) ==
    IF hour \in Buckets.morning \cup Buckets.afternoon
    THEN weights.temp_cloud_day_factor
    ELSE weights.temp_cloud_night_factor

\* the last call is a predict.py predict_hourly that returned a forecast
FullForecast ==
    /\ impl = "full"
    /\ ret.op = "predict_hourly"
    /\ ret.result.kind = "ok"

\* C17: in predict.py the cloud term added to feels_like is (1 - clear_cov)
\* times the day factor exactly for 6 <= hour < 18 and times the night factor
\* for every other hour, the evening hours 18..20 included; the tuning
\* script's predict_with_weights adds the same term.
C17_CloudTermDayOrNight ==
    /\ Buckets.morning \cup Buckets.afternoon = 6..17
    /\ \A h \in Hours, w \in {DefaultWeights, TunedWeights}, cc \in {0, 300, 500, 800, 1000} :
          vt_cloud_effect(w, cc, h) = MulRatio(1000 - cc, CloudFactor(w, h), 1000)
    /\ FullForecast =>
          LET t == full_infer(MODELS, "temperature", ret.date, SelectedRow, FALSE)
              clear_cov == row_get(SelectedRow, "MOD11A1_061_Clear_day_cov", 500)
          IN  \A b \in BucketsOf(ret.hour) :
                 ret.result.val.feels_like =
                     RoundTo(t.val + BucketWeight(WEIGHTS)[b]
                             + MulRatio(1000 - clear_cov, CloudFactor(WEIGHTS, ret.hour), 1000), 10)

\* an evening forecast of predict.py whose two factors give different terms
C17_Witness ==
    /\ FullForecast
    /\ ret.hour = 19
    /\ WEIGHTS.temp_cloud_day_factor # WEIGHTS.temp_cloud_night_factor
    /\ row_get(SelectedRow, "MOD11A1_061_Clear_day_cov", 500) < 1000
    /\ ret.result.val.feels_like =
          RoundTo(full_infer(MODELS, "temperature", ret.date, SelectedRow, FALSE).val
                  + WEIGHTS.temp_evening_offset
                  + MulRatio(1000 - row_get(SelectedRow, "MOD11A1_061_Clear_day_cov", 500),
                             WEIGHTS.temp_cloud_night_factor, 1000), 10)

\* the lazy load is behind: every cache the implementation keeps is set
CachesLoaded == IF impl = "full" THEN ResourcesLoaded ELSE MODELS # None

\* C18: once the resources are loaded, a call of predict_hourly leaves the
\* cached models, the correction weights and the cached MODIS table exactly as
\* they were before the call.
C18_HourlyCallLeavesCaches ==
    [][(CachesLoaded /\ ret'.op \in {"predict_hourly", "predict"}) =>
          /\ MODELS' = MODELS
          /\ WEIGHTS' = WEIGHTS
          /\ MODIS_DF' = MODIS_DF]_vars

KnownFeatures == DOMAIN features_dict(<<2025, 1, 15>>)

\* the last call is a call of a feature builder with a date that parses
FeatureCall ==
    /\ ret.op \in {"_generate_features", "_build_features"}
    /\ IsCalendarDate(ret.date)

\* the names asked for in the last call of a feature builder
AskedNames == {ret.feature_names[i] : i \in 1..Len(ret.feature_names)}

\* C21: the feature names that can be produced are the same for every date;
\* a feature list within them gives a record with exactly the list's features
\* in the list's order; a name outside them is an error of the call, never a
\* record that drops the name or gives it a value.
C21_UnknownFeatureIsError ==
    /\ \A d \in FeatureDates : IsCalendarDate(d) => DOMAIN features_dict(d) = KnownFeatures
    /\ FeatureCall =>
          IF AskedNames \subseteq KnownFeatures
          THEN /\ ret.result.kind = "ok"
               /\ Len(ret.result.val) = Len(ret.feature_names)
          ELSE ret.result.kind = "raise"

\* the sampled hours of a date that predict_hourly can forecast now
HttpGood(date_str) ==
    SelectSeq(FourHours, LAMBDA h : Prediction(date_str, h).kind = "ok")

\* the dates of the requested span that have a forecast, in order
HttpDates ==
    SelectSeq([i \in 1..(SpanDays(ret.start_date, ret.end_date) + 1) |->
                  strftime(ToOrdinal(ret.start_date) + i - 1)],
              LAMBDA d : HttpGood(d) # << >>)

\* the records predict_daily_range has for the requested span
HttpRows ==
    [i \in 1..Len(HttpDates) |->
        simple_daily_row(HttpDates[i],
            [j \in 1..Len(HttpGood(HttpDates[i])) |->
                Prediction(HttpDates[i], HttpGood(HttpDates[i])[j]).val])]

\* C22: /predict and /predict-range answer with the record or the records of
\* predict_hourly / predict_daily_range, unchanged, when the core returns, and
\* with an object whose only key is "error", holding the exception's message,
\* when the core raises; no answer holds both.
C22_HandlerDataOrError ==
    /\ ret.op = "/predict" =>
          LET r == Prediction(ret.date, ret.hour)
          IN  IF r.kind = "ok"
              THEN ret.response.json = r.val /\ "error" \notin DOMAIN r.val
              ELSE ret.response.json = [error |-> r.exc]
    /\ ret.op = "/predict-range" =>
          IF RejectedInput(ret.start_date, ret.end_date)
          THEN /\ DOMAIN ret.response.json = {"error"}
               /\ ret.response.json.error \in ValueErrorClass
          ELSE ret.response.json = HttpRows

\* a /predict request answered with the message of the exception the core
\* raised for lack of a temperature model
C22_Witness ==
    /\ ret.op = "/predict"
    /\ IsCalendarDate(ret.date)
    /\ MODELS # None
    /\ MODELS.temperature = None
    /\ Prediction(ret.date, ret.hour).kind = "raise"
    /\ DOMAIN ret.response.json = {"error"}

\* the day distance of row i of the cached MODIS table from a date
RowDistance(i, date_str) == Abs(MODIS_DF.rows[i].Date - ToOrdinal(date_str))

\* the rows of the cached MODIS table no other row is closer to the date than
NearestRows(date_str) ==
    {i \in 1..Len(MODIS_DF.rows) :
        \A j \in 1..Len(MODIS_DF.rows) : RowDistance(i, date_str) <= RowDistance(j, date_str)}

\* no row of the cached MODIS table is within 60 days of the date
FarFromModis(date_str) ==
    \A i \in 1..Len(MODIS_DF.rows) : RowDistance(i, date_str) > 60

\* C23: predict.py's predict_hourly raises ValueError when the closest MODIS
\* row is more than 60 days from the date and otherwise forecasts from a row
\* of smallest day distance; predict_daily_range swallows that error, so a date
\* farther than 60 days from every row has no row in the output and the call
\* returns normally.
C23_SixtyDayWindow ==
    /\ (impl = "full" /\ ret.op = "predict_hourly" /\ ResourcesLoaded
           /\ IsCalendarDate(ret.date)) =>
          IF FarFromModis(ret.date)
          THEN ret.result = Raise("ValueError")
          ELSE /\ ret.result.kind = "raise" => ret.result.exc = "KeyError"
               /\ ret.result.kind = "ok" =>
                     \E i \in NearestRows(ret.date) :
                        LET row == MODIS_DF.rows[i]
                            t == full_infer(MODELS, "temperature", ret.date, row, FALSE)
                        IN  ret.result.val.feels_like =
                               RoundTo(t.val + full_time_offset(WEIGHTS, ret.hour)
                                   + MulRatio(1000 - row.MOD11A1_061_Clear_day_cov,
                                              CloudFactor(WEIGHTS, ret.hour), 1000), 10)
    /\ (impl = "full" /\ AcceptedRangeCall) =>
          /\ ret.result.kind = "ok"
          /\ \A i \in 1..Len(ReturnedRows) : ~FarFromModis(ReturnedRows[i].date)
          /\ \A i \in 1..Len(SpanSamples) :
                FarFromModis(SpanSamples[i][1]) => SpanSamples[i] \in ret.failed

\* a range from the 60th to the 61st day after a MODIS row returned the row of
\* the 60th day alone
C23_Witness ==
    /\ impl = "full"
    /\ RangeReturned
    /\ ret.start_date = <<2025, 3, 11>>
    /\ ret.end_date = <<2025, 3, 12>>
    /\ Len(ReturnedRows) = 1
    /\ ReturnedRows[1].date = <<2025, 3, 11>>
    /\ <<<<2025, 3, 12>>, 12>> \in ret.failed

\* C24: in predict.py a cache _MODELS that is not None holds all five
\* artifacts; a load in which one artifact fails to open leaves the cache as
\* if no load had happened, so that the next call loads again.
C24_CacheAllOrNothing ==
    (impl = "full" /\ MODELS # None) => DOMAIN MODELS = FiveNames

\* inside the loop the samples made so far are four for every finished date
\* and hi - 1 for the current one, and the current date is at most the day
\* after the end, at most 366 days after the start
LoopBounded ==
    pc = "range" =>
        /\ call.start <= call.current
        /\ call.current <= Max2(call.start, call.end + 1)
        /\ call.current - call.start <= 366
        /\ Len(call.attempted) = 4 * (call.current - call.start) + (call.hi - 1)
        /\ Len(call.results) <= call.current - call.start

\* the rows returned have strictly ascending dates within [start, end], and
\* every date was sampled at most four times
RowsAscending ==
    (RangeReturned /\ ~RejectedInput(ret.start_date, ret.end_date)) =>
        /\ Len(ret.attempted) <= 4 * 366
        /\ \A i \in 1..Len(ReturnedRows) :
              /\ ToOrdinal(ret.start_date) <= ToOrdinal(ReturnedRows[i].date)
              /\ ToOrdinal(ReturnedRows[i].date) <= ToOrdinal(ret.end_date)
              /\ i > 1 => ToOrdinal(ReturnedRows[i - 1].date) < ToOrdinal(ReturnedRows[i].date)

\* a step of the loop either takes the next sampled hour of the current date
\* or, after the fourth, moves the current date on by one day
LoopStep ==
    (pc = "range" /\ pc' = "range") =>
        \/ call'.current = call.current /\ call'.hi = call.hi + 1
        \/ call'.current = call.current + 1 /\ call.hi = 4 /\ call'.hi = 1

\* C25: predict_daily_range terminates for every pair of parseable dates: the
\* current date grows by one day per iteration, an accepted span takes at most
\* 366 iterations with at most four hourly predictions per date, and the rows
\* returned have strictly ascending, distinct dates within [start, end].
C25_RangeTerminates ==
    /\ [](LoopBounded /\ RowsAscending)
    /\ [][LoopStep]_vars
    /\ (pc = "range") ~> (pc = "idle" /\ RangeReturned)

\* a call over 365 days returned after 366 iterations of four samples each
C25_Witness ==
    /\ RangeReturned
    /\ SpanDays(ret.start_date, ret.end_date) = 365
    /\ Len(ret.attempted) = 4 * 366
    /\ Len(ReturnedRows) = 366
    /\ ReturnedRows[1].date = ret.start_date

\* the last call is a predict_daily_range whose start is later than its end
ReversedRangeCall ==
    /\ ret.op = "predict_daily_range"
    /\ IsCalendarDate(ret.start_date)
    /\ IsCalendarDate(ret.end_date)
    /\ SpanDays(ret.start_date, ret.end_date) < 0
    /\ impl = "full" => ResourcesLoaded

\* C26: predict_daily_range called with a start later than its end raises no
\* error and returns an empty frame: the span check rejects only spans of
\* more than 365 days, a negative span passes it, and the body of the date
\* loop never runs.
C26_ReversedSpanIsEmpty ==
    /\ ReversedRangeCall =>
          /\ ret.result = Ok(<< >>)
          /\ ret.attempted = << >>
    /\ (pc = "range" /\ call.start > call.end) =>
          /\ call.current = call.start
          /\ call.attempted = << >>
          /\ call.results = << >>

\* a call whose start is 367 days after its end returned the empty frame
C26_Witness ==
    /\ ReversedRangeCall
    /\ SpanDays(ret.start_date, ret.end_date) = -367
    /\ ret.result = Ok(<< >>)

\* the last call is a predict_hourly of predict_simple or predict.py with an
\* hour outside 0..23, the resources of predict.py being loaded
OddHourCall ==
    /\ impl \in {"simple", "full"}
    /\ ret.op = "predict_hourly"
    /\ ret.hour \notin Hours
    /\ impl = "full" => ResourcesLoaded

\* C27: predict_hourly does not validate the hour: an integer outside 0..23
\* raises no error of its own, selects the night bucket of the temperature
\* adjustment and the night multipliers, so that the call ends as the call
\* for hour 23 does, and the record returned carries the hour as given.
C27_HourNotValidated ==
    /\ \A h \in OddHours \ Hours :
          /\ simple_time_branch(h).time_period = "night"
          /\ \A w \in {DefaultWeights, TunedWeights} :
                full_time_offset(w, h) = w.temp_night_offset
    /\ OddHourCall =>
          LET night == Prediction(ret.date, 23)
          IN  IF night.kind = "raise" THEN ret.result = night
              ELSE /\ ret.result.kind = "ok"
                   /\ ret.result.val.hour = ret.hour
                   /\ ret.result.val = [night.val EXCEPT !.hour = ret.hour]

\* predict.py returned a forecast for hour 30, with the night offset
C27_Witness ==
    /\ impl = "full"
    /\ OddHourCall
    /\ ret.hour = 30
    /\ ret.result.kind = "ok"
    /\ ret.result.val.hour = 30

PeriodNames == {"morning", "afternoon", "evening", "night"}

\* C28: for every hour 0..23 predict_simple.predict_hourly,
\* TemperaturePredictionModel.predict_feels_like_temperature,
\* function_app.get_time_period and simple_server.predict_temperature name
\* the same period, one of morning, afternoon, evening and night.
C28_PeriodsAgree ==
    /\ ret.op = "time_period" =>
          /\ ret.function_app \in PeriodNames
          /\ ret.predict_simple = ret.function_app
          /\ ret.temperature_model = ret.function_app
          /\ ret.simple_server = ret.function_app
    /\ (impl = "simple" /\ ret.op = "predict_hourly" /\ ret.result.kind = "ok") =>
          /\ ret.result.val.time_period = get_time_period(ret.hour)
          /\ ret.result.val.time_period = temp_time_period(ret.hour)
          /\ ret.result.val.time_period = predict_temperature_time_period(ret.hour)

\* the four implementations were asked for hour 21, the first hour of the
\* night after the evening
C28_Witness ==
    /\ ret.op = "time_period"
    /\ ret.hour = 21
    /\ ret.function_app = "night"
    /\ ret.simple_server = "night"

\* the last call is a predict_simple forecast made with the humidity model
HumidityForecast ==
    /\ impl = "simple"
    /\ ret.op = "predict_hourly"
    /\ ret.result.kind = "ok"
    /\ MODELS.humidity # None

\* the relative humidity before the adjustment: the vapor pressure over 16.5,
\* held within [0, 100]
BaseHumidity ==
    Min2(100000, Max2(0, MulRatio(infer(MODELS.humidity, ret.date, FALSE).val, 10, 165)))

\* C29: with the humidity model loaded predict_simple adjusts the humidity by
\* the first branch that matches the hour: 5..9 times 1.15 (hour 5 included),
\* 21 and later or 4 and earlier times 1.1, 13..17 max(20, times 0.9), and
\* 10..12 and 18..20 unadjusted; for the hours 13..17 the humidity returned is
\* within [20, 100] whatever the model's output.
C29_HumidityBranches ==
    HumidityForecast =>
        LET h == ret.hour
            got == ret.result.val.humidity_percent
        IN  /\ h \in 5..9 =>
                  got = RoundTo(Min2(100000, MulRatio(BaseHumidity, 115, 100)), 100)
            /\ (h >= 21 \/ h <= 4) =>
                  got = RoundTo(Min2(100000, MulRatio(BaseHumidity, 11, 10)), 100)
            /\ h \in 13..17 =>
                  /\ got = RoundTo(Max2(20000, MulRatio(BaseHumidity, 9, 10)), 100)
                  /\ 20000 <= got
                  /\ got <= 100000
            /\ h \in (10..12) \cup (18..20) => got = RoundTo(BaseHumidity, 100)

\* hour 5 of a spring day took the morning multiplier, not the night one
C29_Witness ==
    /\ HumidityForecast
    /\ ret.hour = 5
    /\ BaseHumidity > 0
    /\ ret.result.val.humidity_percent = RoundTo(MulRatio(BaseHumidity, 115, 100), 100)
    /\ ret.result.val.humidity_percent # RoundTo(MulRatio(BaseHumidity, 11, 10), 100)

\* C30: clamping the raw precipitation at 0 and then multiplying by the
\* hour's multiplier, as predict_simple does, gives the same value as
\* multiplying first and clamping afterwards, as predict.py does, for every
\* raw prediction and every hour 0..23 when the multipliers are the same and
\* positive.
C30_ClampOrdersAgree ==
    /\ \A m \in {SimpleMultipliers.precip_morning_mult,
                  SimpleMultipliers.precip_afternoon_mult,
                  SimpleMultipliers.precip_night_mult} : m > 0
    /\ ret.op = "precipitation" =>
          /\ ret.predict_simple = ret.predict
          /\ ret.predict >= 0
          /\ ret.raw <= 0 => ret.predict = 0

\* a negative model output in the afternoon window: zero in both orders
C30_Witness ==
    /\ ret.op = "precipitation"
    /\ ret.raw = -2000
    /\ ret.hour = 16
    /\ ret.predict_simple = 0
    /\ ret.predict = 0
====
